---------------------------- MODULE Spec2Model ----------------------------
(***************************************************************************)
(* A model of the calculation layer of finvision-ai-modeler: the scenario  *)
(* projector, the runway / break-even / valuation / budget calculators,    *)
(* the industry-benchmark table with the two functions that read (and      *)
(* write) it, the model validator, the funding planner, the sensitivity    *)
(* analysis, the LLM-backed operations with their retry, the input         *)
(* validation of the form and of the report, the financial ratios and the  *)
(* benchmark comparison, the Dashboard's analysis effect and the loading   *)
(* state of App.handleGenerate.                                            *)
(*                                                                         *)
(* JavaScript numbers are modelled as exact rationals extended with NaN,   *)
(* Infinity and -Infinity (the values a division by zero produces).  Zero  *)
(* is unsigned: every zero divisor in the modelled code is the result of a *)
(* subtraction of equal values, a literal or a cash balance of 0, which is *)
(* +0 in IEEE-754.                                                         *)
(* Amounts are kept small enough for exact integer arithmetic.             *)
(***************************************************************************)
EXTENDS Integers, Sequences, FiniteSets, TLC

---------------------------------------------------------------------------
(* JavaScript number arithmetic                                            *)

RECURSIVE GCD(_, _)
GCD(a, b) == IF b = 0 THEN a ELSE GCD(b, a % b)

AbsInt(a) == IF a < 0 THEN -a ELSE a

\* The finite number n/d in lowest terms with a positive denominator.
Fin(n, d) ==
  LET s == IF d < 0 THEN -1 ELSE 1
      g == GCD(AbsInt(n), AbsInt(d))
  IN  [k |-> "fin", n |-> (s * n) \div g, d |-> (s * d) \div g]

I(n) == [k |-> "fin", n |-> n, d |-> 1]
NaN == [k |-> "nan", n |-> 0, d |-> 1]
PosInf == [k |-> "inf", n |-> 1, d |-> 1]
NegInf == [k |-> "inf", n |-> -1, d |-> 1]

IsFin(x) == x.k = "fin"
IsNaN(x) == x.k = "nan"
Sgn(x) == IF x.n > 0 THEN 1 ELSE IF x.n < 0 THEN -1 ELSE 0
InfOf(s) == IF s > 0 THEN PosInf ELSE NegInf

NNeg(x) == [x EXCEPT !.n = -x.n]

NAdd(x, y) ==
  IF IsNaN(x) \/ IsNaN(y) THEN NaN
  ELSE IF ~IsFin(x) /\ ~IsFin(y) THEN (IF x.n = y.n THEN x ELSE NaN)
  ELSE IF ~IsFin(x) THEN x
  ELSE IF ~IsFin(y) THEN y
  ELSE LET g == GCD(x.d, y.d)
       IN  Fin(x.n * (y.d \div g) + y.n * (x.d \div g), x.d * (y.d \div g))

NSub(x, y) == NAdd(x, NNeg(y))

NMul(x, y) ==
  IF IsNaN(x) \/ IsNaN(y) THEN NaN
  ELSE IF ~IsFin(x) \/ ~IsFin(y)
       THEN (IF Sgn(x) * Sgn(y) = 0 THEN NaN ELSE InfOf(Sgn(x) * Sgn(y)))
  ELSE LET g1 == GCD(AbsInt(x.n), y.d)
           g2 == GCD(AbsInt(y.n), x.d)
       IN  Fin((x.n \div g1) * (y.n \div g2), (x.d \div g2) * (y.d \div g1))

\* x / y as JavaScript evaluates it: a zero divisor gives NaN or an infinity.
NDiv(x, y) ==
  IF IsNaN(x) \/ IsNaN(y) THEN NaN
  ELSE IF ~IsFin(x) /\ ~IsFin(y) THEN NaN
  ELSE IF ~IsFin(y) THEN I(0)
  ELSE IF y.n = 0 THEN (IF Sgn(x) = 0 THEN NaN ELSE InfOf(Sgn(x)))
  ELSE IF ~IsFin(x) THEN InfOf(Sgn(x) * Sgn(y))
  ELSE NMul(x, Fin(y.d, y.n))

\* x < y; any comparison with NaN is false.
NLt(x, y) ==
  IF IsNaN(x) \/ IsNaN(y) THEN FALSE
  ELSE IF ~IsFin(x) THEN x.n < 0 /\ ~(~IsFin(y) /\ y.n < 0)
  ELSE IF ~IsFin(y) THEN y.n > 0
  ELSE LET g == GCD(x.d, y.d)
       IN  x.n * (y.d \div g) < y.n * (x.d \div g)

\* x === y on numbers.
NEq(x, y) == ~IsNaN(x) /\ ~IsNaN(y) /\ x = y
NLe(x, y) == NLt(x, y) \/ NEq(x, y)
NGt(x, y) == NLt(y, x)
NGe(x, y) == NLe(y, x)

MathMax(x, y) == IF IsNaN(x) \/ IsNaN(y) THEN NaN ELSE IF NLt(x, y) THEN y ELSE x
MathMin(x, y) == IF IsNaN(x) \/ IsNaN(y) THEN NaN ELSE IF NLt(y, x) THEN y ELSE x
MathAbs(x) == IF IsFin(x) THEN [x EXCEPT !.n = AbsInt(x.n)] ELSE IF IsNaN(x) THEN NaN ELSE PosInf

\* Math.round: the nearest integer, ties towards +Infinity.
MathRound(x) == IF IsFin(x) THEN I((2 * x.n + x.d) \div (2 * x.d)) ELSE x

RECURSIVE MathPow(_, _)
MathPow(x, e) == IF e = 0 THEN I(1) ELSE NMul(x, MathPow(x, e - 1))

\* A decimal literal with two places, such as 0.15 == Pct(15).
Pct(p) == Fin(p, 100)


---------------------------------------------------------------------------
(* Strings: String.prototype.toLowerCase and String.prototype.includes     *)

UpperChars == "ABCDEFGHIJKLMNOPQRSTUVWXYZ"
LowerChars == "abcdefghijklmnopqrstuvwxyz"

lowerChar(c) ==
  IF \E i \in 1..Len(UpperChars) : SubSeq(UpperChars, i, i) = c
  THEN LET i == CHOOSE j \in 1..Len(UpperChars) : SubSeq(UpperChars, j, j) = c
       IN  SubSeq(LowerChars, i, i)
  ELSE c

RECURSIVE toLowerCase(_)
toLowerCase(s) ==
  IF Len(s) = 0 THEN s
  ELSE lowerChar(SubSeq(s, 1, 1)) \o toLowerCase(SubSeq(s, 2, Len(s)))

includes(s, w) ==
  \E i \in 1..(Len(s) - Len(w) + 1) : SubSeq(s, i, i + Len(w) - 1) = w

---------------------------------------------------------------------------
(* ScenarioProjector: generateScenariosFromInputs                          *)

\* taxRate (in percent) of getCountryConfig's table; currency and
\* salaryMultiplier feed only display text and the unused fixedOpex.
CountryTaxPct ==
  [c \in {"India", "Germany", "Australia", "Japan", "Mexico", "Nigeria", "Kenya"} |-> 30]
  @@ [c \in {"USA", "Sweden", "Portugal", "Slovakia"} |-> 21]
  @@ [c \in {"UK", "Poland", "Czech Republic", "Slovenia"} |-> 19]
  @@ [c \in {"South Korea", "China", "Netherlands", "Turkey", "Austria", "Spain"} |-> 25]
  @@ [c \in {"Norway", "Denmark", "Egypt"} |-> 22]
  @@ [c \in {"Switzerland", "Croatia", "Ukraine", "Belarus"} |-> 18]
  @@ [c \in {"Saudi Arabia", "Russia", "Latvia", "Estonia", "Finland"} |-> 20]
  @@ [c \in {"Italy", "Greece", "Luxembourg"} |-> 24]
  @@ [c \in {"UAE", "Hungary"} |-> 9]
  @@ [c \in {"Serbia", "Lithuania"} |-> 15]
  @@ [c \in {"Ireland", "Cyprus"} |-> 12]
  @@ ("Singapore" :> 17) @@ ("Canada" :> 26) @@ ("Brazil" :> 34)
  @@ ("France" :> 32) @@ ("Israel" :> 23) @@ ("South Africa" :> 28)
  @@ ("Romania" :> 16) @@ ("Bulgaria" :> 10) @@ ("Belgium" :> 29)
  @@ ("Malta" :> 35)

getCountryConfig(country) ==
  IF country \in DOMAIN CountryTaxPct
  THEN [taxRate |-> Pct(CountryTaxPct[country])]
  ELSE [taxRate |-> Pct(CountryTaxPct["India"])]

\* baseProfiles: grossMargin and variableOpexRate in percent.
baseProfiles ==
  ("SaaS" :> [grossMargin |-> 60, variableOpexRate |-> 15])
  @@ ("E-commerce" :> [grossMargin |-> 25, variableOpexRate |-> 25])
  @@ ("FinTech" :> [grossMargin |-> 50, variableOpexRate |-> 18])
  @@ ("HealthTech" :> [grossMargin |-> 55, variableOpexRate |-> 20])
  @@ ("Manufacturing" :> [grossMargin |-> 30, variableOpexRate |-> 35])

getMarginProfile(industry, country) ==
  LET profile == IF industry \in DOMAIN baseProfiles
                 THEN baseProfiles[industry] ELSE baseProfiles["SaaS"]
  IN  [grossMargin |-> Pct(profile.grossMargin),
       variableOpexRate |-> Pct(profile.variableOpexRate),
       taxRate |-> getCountryConfig(country).taxRate]

\* A variant that takes all of the user's opex as fixed, without setting the
\* base variable opex apart.
derivedFixedOpexGrossOfVariable(in) ==
  NSub(NMul(in.monthlyExpenses, I(12)),
       NMul(in.annualRevenue,
            NSub(I(1), getMarginProfile(in.industry, in.country).grossMargin)))

\* derivedFixedOpex: the user's annual expenses less base COGS and base
\* variable opex.
derivedFixedOpex(in) ==
  LET mp == getMarginProfile(in.industry, in.country)
      baseCogs == NMul(in.annualRevenue, NSub(I(1), mp.grossMargin))
      baseAnnualExpenses == NMul(in.monthlyExpenses, I(12))
      baseOpex == NSub(baseAnnualExpenses, baseCogs)
      baseVariableOpex == NMul(in.annualRevenue, mp.variableOpexRate)
  IN  NSub(baseOpex, baseVariableOpex)

\* The annual growth factor of each loop, in percent.
growthPct(policy) ==
  CASE policy = "base" -> 110
    [] policy = "optimistic" -> 125
    [] policy = "pessimistic" -> 95

yearRevenueOf(policy, in, year) ==
  IF year = 1 THEN in.annualRevenue
  ELSE NMul(in.annualRevenue, MathPow(Pct(growthPct(policy)), year - 1))

\* The unrounded operating figures of one loop iteration, revenue to EBITDA.
yearOperating(policy, in, year) ==
  LET mp == getMarginProfile(in.industry, in.country)
      yearRevenue == yearRevenueOf(policy, in, year)
      yearGrossMargin ==
        CASE policy = "base" -> mp.grossMargin
          [] policy = "optimistic" ->
               MathMin(NAdd(NAdd(mp.grossMargin, Pct(5)), NMul(I(year - 1), Pct(2))), Pct(85))
          [] policy = "pessimistic" ->
               MathMax(NSub(NSub(mp.grossMargin, Pct(3)), NMul(I(year - 1), Pct(1))), Pct(15))
      yearCogs ==
        IF policy = "base" THEN NMul(yearRevenue, NSub(I(1), mp.grossMargin))
        ELSE NSub(yearRevenue, NMul(yearRevenue, yearGrossMargin))
      yearGrossProfit ==
        IF policy = "base" THEN NSub(yearRevenue, yearCogs)
        ELSE NMul(yearRevenue, yearGrossMargin)
      yearVariableOpexRate ==
        CASE policy = "base" -> mp.variableOpexRate
          [] policy = "optimistic" -> NMul(mp.variableOpexRate, MathPow(Pct(95), year - 1))
          [] policy = "pessimistic" -> NMul(mp.variableOpexRate, MathPow(Pct(105), year - 1))
      yearOpex == NAdd(derivedFixedOpex(in), NMul(yearRevenue, yearVariableOpexRate))
  IN  [revenue |-> yearRevenue, cogs |-> yearCogs, grossProfit |-> yearGrossProfit,
       opex |-> yearOpex, ebitda |-> NSub(yearGrossProfit, yearOpex)]

\* Net income after tax on a profit, and the cash it leaves; cashIn is the
\* user's availableCash in year 1 and the stored cashBalance of the year
\* before afterwards.
yearBottomLine(op, taxRate, cashIn) ==
  LET yearNetIncome ==
        IF NGt(op.ebitda, I(0)) THEN NMul(op.ebitda, NSub(I(1), taxRate)) ELSE op.ebitda
  IN  [revenue |-> op.revenue, cogs |-> op.cogs, grossProfit |-> op.grossProfit,
       opex |-> op.opex, ebitda |-> op.ebitda, netIncome |-> yearNetIncome,
       cashBalance |-> NAdd(cashIn, yearNetIncome)]

\* The unrounded figures of one loop iteration; prevCash is the stored
\* (rounded, clamped) cashBalance of the year before.
yearFigures(policy, in, year, prevCash) ==
  yearBottomLine(yearOperating(policy, in, year),
                 getMarginProfile(in.industry, in.country).taxRate,
                 IF year = 1 THEN in.availableCash ELSE prevCash)

\* Variants of the pushed record, used to show which step each property
\* rests on. This one reports the revenue as gross profit, without taking
\* COGS off.
pushedYearGrossOfCogs(year, f) ==
  [year |-> year,
   revenue |-> MathRound(f.revenue),
   cogs |-> MathRound(f.cogs),
   grossProfit |-> MathRound(f.revenue),
   opex |-> MathRound(f.opex),
   ebitda |-> MathRound(f.ebitda),
   netIncome |-> MathRound(f.netIncome),
   cashBalance |-> MathRound(MathMax(I(0), f.cashBalance))]

\* This one stores the cash balance without Math.max(0, ...).
pushedYearUnclamped(year, f) ==
  [year |-> year,
   revenue |-> MathRound(f.revenue),
   cogs |-> MathRound(f.cogs),
   grossProfit |-> MathRound(f.grossProfit),
   opex |-> MathRound(f.opex),
   ebitda |-> MathRound(f.ebitda),
   netIncome |-> MathRound(f.netIncome),
   cashBalance |-> MathRound(f.cashBalance)]

\* The FinancialYear pushed by one loop iteration, from its figures f.
pushedYear(year, f) ==
  [year |-> year,
   revenue |-> MathRound(f.revenue),
   cogs |-> MathRound(f.cogs),
   grossProfit |-> MathRound(f.grossProfit),
   opex |-> MathRound(f.opex),
   ebitda |-> MathRound(f.ebitda),
   netIncome |-> MathRound(f.netIncome),
   cashBalance |-> MathRound(MathMax(I(0), f.cashBalance))]

projectionOf(policy, in, year, prevCash) ==
  pushedYear(year, yearFigures(policy, in, year, prevCash))

\* for (let year = 1; year <= 3; year++) { ... projections.push(...) }
projectionsOf(policy, in) ==
  LET y1 == projectionOf(policy, in, 1, I(0))
      y2 == projectionOf(policy, in, 2, y1.cashBalance)
      y3 == projectionOf(policy, in, 3, y2.cashBalance)
  IN  <<y1, y2, y3>>

scenarioName(policy, companyName) ==
  CASE policy = "base" ->
         IF companyName # "" THEN companyName \o " - Business Plan" ELSE "Your Business Plan"
    [] policy = "optimistic" ->
         IF companyName # "" THEN companyName \o " - Growth Scenario" ELSE "Growth Scenario"
    [] policy = "pessimistic" ->
         IF companyName # "" THEN companyName \o " - Conservative Scenario"
         ELSE "Conservative Scenario"

\* The order of the returned array: base, optimistic, pessimistic.
Policies == <<"base", "optimistic", "pessimistic">>

\* description and assumptions are display text and are left out.
generateScenariosFromInputs(in) ==
  [i \in 1..3 |->
     [name |-> scenarioName(Policies[i], in.companyName),
      projections |-> projectionsOf(Policies[i], in)]]

---------------------------------------------------------------------------
(* Scenario-type detection by substring of the lower-cased name, spelled   *)
(* identically in analyzeBudget, validateFinancialModel and                *)
(* compareToMarket                                                         *)

\* The flags one function derives from scenario.name, evaluated once.
scenarioFlags(name) ==
  LET scenarioType == toLowerCase(name)
  IN  [isOptimistic |-> includes(scenarioType, "optimistic")
                        \/ includes(scenarioType, "aggressive"),
       isPessimistic |-> includes(scenarioType, "pessimistic")
                         \/ includes(scenarioType, "downturn"),
       isBase |-> includes(scenarioType, "base") \/ includes(scenarioType, "conservative")]

---------------------------------------------------------------------------
(* BudgetAllocator: analyzeBudget                                          *)

\* currentBudget || 2000000: 0 and NaN are falsy.
budgetOrDefault(currentBudget) ==
  IF IsNaN(currentBudget) \/ NEq(currentBudget, I(0)) THEN I(2000000) ELSE currentBudget

\* allocationRules, workingCapitalRate and contingencyRate in percent.
budgetRules(name) ==
  LET t == scenarioFlags(name) IN
  IF t.isOptimistic
  THEN [operations |-> 60, marketing |-> 25, development |-> 12, reserves |-> 3,
        workingCapitalRate |-> 15, contingencyRate |-> 10]
  ELSE IF t.isPessimistic
  THEN [operations |-> 75, marketing |-> 10, development |-> 5, reserves |-> 10,
        workingCapitalRate |-> 8, contingencyRate |-> 25]
  ELSE [operations |-> 70, marketing |-> 15, development |-> 10, reserves |-> 5,
        workingCapitalRate |-> 10, contingencyRate |-> 15]

budgetRunwayMonths(firstYear, budget) ==
  LET actualMonthlyBurn == NDiv(MathAbs(firstYear.netIncome), I(12))
      monthlyRevenue == NDiv(firstYear.revenue, I(12))
      monthlyNetCashFlow == NSub(monthlyRevenue, actualMonthlyBurn)
  IN  IF NGe(monthlyNetCashFlow, I(0)) THEN I(999)
      ELSE MathMax(I(0), NDiv(budget, MathMax(I(1), MathAbs(monthlyNetCashFlow))))

analyzeBudget(scenario, currentBudget) ==
  LET budget == budgetOrDefault(currentBudget)
      firstYear == scenario.projections[1]
      rules == budgetRules(scenario.name)
      annualOperatingCosts == NAdd(firstYear.cogs, firstYear.opex)
      workingCapitalNeeds == NMul(firstYear.revenue, Pct(rules.workingCapitalRate))
      contingencyBuffer == NMul(annualOperatingCosts, Pct(rules.contingencyRate))
      recommendedBudget ==
        NAdd(NAdd(annualOperatingCosts, workingCapitalNeeds), contingencyBuffer)
      bucket(w) == [amount |-> NMul(budget, Pct(w)), percentage |-> w]
      runwayMonths == budgetRunwayMonths(firstYear, budget)
      riskLevel == IF NGe(runwayMonths, I(18)) THEN "Low"
                   ELSE IF NGe(runwayMonths, I(12)) THEN "Medium" ELSE "High"
  IN  [totalBudget |-> budget,
       allocation |-> [operations |-> bucket(rules.operations),
                       marketing |-> bucket(rules.marketing),
                       development |-> bucket(rules.development),
                       reserves |-> bucket(rules.reserves)],
       adequacy |-> [isAdequate |-> NGe(runwayMonths, I(12)),
                     shortfall |-> MathMax(I(0), NSub(recommendedBudget, budget)),
                     recommendedBudget |-> recommendedBudget,
                     riskLevel |-> riskLevel],
       monthlyBurn |-> NDiv(MathAbs(firstYear.netIncome), I(12)),
       runwayMonths |-> runwayMonths]

---------------------------------------------------------------------------
(* The industry-benchmark table and the functions that read and write it   *)

Range3(lo, mid, hi) == [min |-> I(lo), avg |-> I(mid), max |-> I(hi)]

\* INDUSTRY_BENCHMARKS as the module initialises it.  Only the metrics
\* object is modelled: valuation and funding are never written.
InitialBenchmarks ==
  ("SaaS" :> [metrics |->
      [grossMargin |-> Range3(60, 75, 85), ebitdaMargin |-> Range3(-15, 10, 35),
       revenueGrowth |-> Range3(20, 40, 100), burnRate |-> Range3(50000, 150000, 500000),
       cashRunway |-> Range3(12, 18, 36)]])
  @@ ("E-commerce" :> [metrics |->
      [grossMargin |-> Range3(20, 35, 50), ebitdaMargin |-> Range3(-8, 8, 20),
       revenueGrowth |-> Range3(15, 30, 80), burnRate |-> Range3(30000, 100000, 300000),
       cashRunway |-> Range3(8, 15, 24)]])
  @@ ("FinTech" :> [metrics |->
      [grossMargin |-> Range3(50, 65, 80), ebitdaMargin |-> Range3(-20, 15, 35),
       revenueGrowth |-> Range3(25, 50, 120), burnRate |-> Range3(75000, 200000, 600000),
       cashRunway |-> Range3(15, 24, 48)]])
  @@ ("HealthTech" :> [metrics |->
      [grossMargin |-> Range3(55, 70, 85), ebitdaMargin |-> Range3(-25, 12, 30),
       revenueGrowth |-> Range3(20, 45, 90), burnRate |-> Range3(60000, 180000, 450000),
       cashRunway |-> Range3(18, 30, 60)]])
  @@ ("Manufacturing" :> [metrics |->
      [grossMargin |-> Range3(25, 40, 55), ebitdaMargin |-> Range3(2, 12, 25),
       revenueGrowth |-> Range3(10, 25, 50), burnRate |-> Range3(40000, 120000, 350000),
       cashRunway |-> Range3(12, 20, 36)]])

\* The key getIndustryBenchmarks resolves an industry to.
benchmarkKey(table, industry) == IF industry \in DOMAIN table THEN industry ELSE "SaaS"

getIndustryBenchmarks(table, industry) == table[benchmarkKey(table, industry)]

\* Math.pow(q, 1/3) for a ratio q that is the cube of a small rational.
CubeRootCandidates == {Fin(a, b) : a \in 0..30, b \in {1, 2, 5, 10}}
Cubes == {MathPow(r, 3) : r \in CubeRootCandidates}
CubeOf == [r \in CubeRootCandidates |-> MathPow(r, 3)]
isCube(q) == q \in Cubes
cubeRoot(q) == CHOOSE r \in CubeRootCandidates : CubeOf[r] = q

\* (Math.pow(q, 1/3) - 1) * 100
cagrOf(q) ==
  IF IsNaN(q) \/ (IsFin(q) /\ q.n < 0) THEN NaN
  ELSE IF ~IsFin(q) THEN PosInf
  ELSE NMul(NSub(cubeRoot(q), I(1)), I(100))

\* (Math.pow(q, 1/3) - 1) * 100 < t, decided without extracting the root
\* when q is no perfect cube.
cagrLt(q, t) ==
  IF IsNaN(q) \/ IsNaN(t) \/ (IsFin(q) /\ q.n < 0) THEN FALSE
  ELSE IF ~IsFin(q) THEN FALSE
  ELSE IF ~IsFin(t) THEN t.n > 0
  ELSE LET c == NDiv(NAdd(I(100), t), I(100))
       IN  IF c.n <= 0 THEN FALSE
           ELSE IF isCube(q) THEN NLt(cubeRoot(q), c)
           ELSE NLt(q, MathPow(c, 3))

\* (Math.pow(q, 1/3) - 1) * 100 > t
cagrGt(q, t) ==
  IF IsNaN(q) \/ IsNaN(t) \/ (IsFin(q) /\ q.n < 0) THEN FALSE
  ELSE IF ~IsFin(q) THEN ~(~IsFin(t) /\ t.n > 0)
  ELSE IF ~IsFin(t) THEN t.n < 0
  ELSE LET c == NDiv(NAdd(I(100), t), I(100))
       IN  IF c.n < 0 THEN TRUE
           ELSE IF isCube(q) THEN NGt(cubeRoot(q), c)
           ELSE NGt(q, MathPow(c, 3))

getPercentile(value, benchmark) ==
  IF NLe(value, benchmark.min) THEN I(10)
  ELSE IF NGe(value, benchmark.max) THEN I(90)
  ELSE IF NLe(value, benchmark.avg)
  THEN NAdd(I(10), NMul(NDiv(NSub(value, benchmark.min),
                             NSub(benchmark.avg, benchmark.min)), I(40)))
  ELSE NAdd(I(50), NMul(NDiv(NSub(value, benchmark.avg),
                             NSub(benchmark.max, benchmark.avg)), I(40)))

getStatus(value, benchmark) ==
  LET percentile == getPercentile(value, benchmark)
  IN  IF NGe(percentile, I(80)) THEN "Excellent"
      ELSE IF NGe(percentile, I(60)) THEN "Above Average"
      ELSE IF NGe(percentile, I(40)) THEN "Average"
      ELSE IF NGe(percentile, I(20)) THEN "Below Average"
      ELSE "Poor"

\* The table after compareToMarket's "adjustments": adjustedBenchmarks is a
\* shallow copy, so adjustedBenchmarks.metrics is the table's own object.
compareToMarketTable(table, scenario, industry) ==
  LET key == benchmarkKey(table, industry)
      m == table[key].metrics
      t == scenarioFlags(scenario.name)
  IN  IF t.isOptimistic
      THEN [table EXCEPT
              ![key].metrics.grossMargin.avg = NMul(m.grossMargin.avg, Pct(110)),
              ![key].metrics.revenueGrowth.avg = NMul(m.revenueGrowth.avg, Pct(130))]
      ELSE IF t.isPessimistic
      THEN [table EXCEPT
              ![key].metrics.grossMargin.avg = NMul(m.grossMargin.avg, Pct(90)),
              ![key].metrics.ebitdaMargin.avg = NMul(m.ebitdaMargin.avg, Pct(80)),
              ![key].metrics.revenueGrowth.avg = I(5)]
      ELSE table

\* The record compareToMarket returns, computed on the table as adjusted.
compareToMarketResult(table, scenario, industry) ==
  LET adjusted == compareToMarketTable(table, scenario, industry)
      metrics == getIndustryBenchmarks(adjusted, industry).metrics
      lastYear == scenario.projections[Len(scenario.projections)]
      firstYear == scenario.projections[1]
      grossMargin == NMul(NDiv(lastYear.grossProfit, lastYear.revenue), I(100))
      ebitdaMargin == NMul(NDiv(lastYear.ebitda, lastYear.revenue), I(100))
      revenueGrowth == cagrOf(NDiv(lastYear.revenue, firstYear.revenue))
      t == scenarioFlags(scenario.name)
      context == IF t.isOptimistic THEN "optimistic"
                 ELSE IF t.isPessimistic THEN "pessimistic" ELSE "industry"
      entry(value, benchmark) ==
        [value |-> value, percentile |-> getPercentile(value, benchmark),
         status |-> getStatus(value, benchmark), context |-> context]
  IN  [grossMargin |-> entry(grossMargin, metrics.grossMargin),
       ebitdaMargin |-> entry(ebitdaMargin, metrics.ebitdaMargin),
       revenueGrowth |-> entry(revenueGrowth, metrics.revenueGrowth)]

---------------------------------------------------------------------------
(* ModelValidator: validateFinancialModel                                  *)

\* The table after the "adjust benchmarks" block; here too the shallow copy
\* shares its metrics object with the table.  The second pessimistic write
\* reads revenueGrowth.min after the first has set it.
validateTable(table, scenario, industry) ==
  LET key == benchmarkKey(table, industry)
      m == table[key].metrics
      t == scenarioFlags(scenario.name)
  IN  IF t.isOptimistic
      THEN [table EXCEPT
              ![key].metrics.revenueGrowth.min = m.revenueGrowth.avg,
              ![key].metrics.revenueGrowth.max = NMul(m.revenueGrowth.max, Pct(150))]
      ELSE IF t.isPessimistic
      THEN [table EXCEPT
              ![key].metrics.revenueGrowth.min = I(-20),
              ![key].metrics.revenueGrowth.max = I(-20),
              ![key].metrics.grossMargin.min = NMul(m.grossMargin.min, Pct(80))]
      ELSE table

IfSeq(cond, item) == IF cond THEN <<item>> ELSE <<>>

\* The errors one projection adds, in push order.  A message is modelled
\* by a tag and the number it is about (the year, or a table value).
yearErrors(proj) ==
  LET grossMargin == NMul(NDiv(proj.grossProfit, proj.revenue), I(100))
  IN  IfSeq(NLe(proj.revenue, I(0)), <<"revenue", I(proj.year)>>)
      \o IfSeq(NGt(MathAbs(NSub(NSub(proj.revenue, proj.cogs), proj.grossProfit)), I(1)),
               <<"grossProfit", I(proj.year)>>)
      \o IfSeq(NGt(MathAbs(NSub(NSub(proj.grossProfit, proj.opex), proj.ebitda)), I(1)),
               <<"ebitda", I(proj.year)>>)
      \o IfSeq(NLt(grossMargin, I(0)), <<"negativeGrossMargin", I(proj.year)>>)

\* The warnings one projection adds, in push order.
yearWarnings(metrics, scenario, t, index) ==
  LET projections == scenario.projections
      proj == projections[index]
      grossMargin == NMul(NDiv(proj.grossProfit, proj.revenue), I(100))
      prevProj == projections[index - 1]
      revenueGrowth ==
        NMul(NDiv(NSub(proj.revenue, prevProj.revenue), prevProj.revenue), I(100))
  IN  IfSeq(~NLt(grossMargin, I(0)) /\ NLt(grossMargin, metrics.grossMargin.min),
            <<"grossMarginBelowMinimum", I(proj.year)>>)
      \o (IF index > 1
          THEN (IF t.isOptimistic /\ NLt(revenueGrowth, metrics.revenueGrowth.min)
                THEN <<(<<"growthLowForOptimistic", I(proj.year)>>)>>
                ELSE IF t.isPessimistic /\ NGt(revenueGrowth, I(10))
                THEN <<(<<"growthHighForPessimistic", I(proj.year)>>)>>
                ELSE IF t.isBase /\ (NLt(revenueGrowth, I(5)) \/ NGt(revenueGrowth, I(50)))
                THEN <<(<<"growthOutsideBaseRange", I(proj.year)>>)>>
                ELSE <<>>)
               \o (IF NLt(revenueGrowth, I(-50))
                   THEN <<(<<"extremeDecline", I(proj.year)>>)>>
                   ELSE IF NGt(revenueGrowth, I(300)) /\ ~t.isOptimistic
                   THEN <<(<<"unrealisticGrowth", I(proj.year)>>)>>
                   ELSE <<>>)
          ELSE <<>>)
      \o IfSeq(NLt(proj.netIncome, I(0))
               /\ NLt(proj.cashBalance, NMul(projections[1].cashBalance, Pct(10))),
               <<"lowCash", I(proj.year)>>)

\* The messages pushed over the whole forEach, given those of each pass.
RECURSIVE pushedInOrder(_)
pushedInOrder(perYear) ==
  IF perYear = <<>> THEN <<>> ELSE Head(perYear) \o pushedInOrder(Tail(perYear))

\* The recommendations, in push order; a tag carries the table value the
\* message prints.
validateRecommendations(metrics, scenario, t) ==
  LET projections == scenario.projections
      lastYear == projections[Len(projections)]
      firstYear == projections[1]
      avgGrossMargin == NMul(NDiv(lastYear.grossProfit, lastYear.revenue), I(100))
      avgEbitdaMargin == NMul(NDiv(lastYear.ebitda, lastYear.revenue), I(100))
      ratio == NDiv(lastYear.revenue, firstYear.revenue)
      totalOperatingCosts == NAdd(lastYear.cogs, lastYear.opex)
      monthlyNetCash == NSub(NDiv(lastYear.revenue, I(12)), NDiv(totalOperatingCosts, I(12)))
      runwayMonths == IF t.isOptimistic THEN 12 ELSE IF t.isPessimistic THEN 24 ELSE 18
  IN  IfSeq(NLt(avgGrossMargin, NMul(metrics.grossMargin.avg, Pct(80))),
            <<"improveGrossMargin", metrics.grossMargin.avg>>)
      \o IfSeq(NLt(avgEbitdaMargin, NMul(metrics.ebitdaMargin.avg, Pct(70))),
               <<"ebitdaBelowStandard", I(0)>>)
      \o (IF t.isOptimistic /\ cagrLt(ratio, metrics.revenueGrowth.min)
          THEN <<(<<"growthConservative", I(0)>>)>>
          ELSE IF t.isPessimistic /\ cagrGt(ratio, I(0))
          THEN <<(<<"growthPositiveInPessimistic", I(0)>>)>>
          ELSE IF t.isBase /\ (cagrLt(ratio, metrics.revenueGrowth.min)
                                   \/ cagrGt(ratio, metrics.revenueGrowth.max))
          THEN <<(<<"growthOutsideTypicalRange", I(0)>>)>>
          ELSE <<>>)
      \o IfSeq(NLt(monthlyNetCash, I(0)), <<"raiseFunding", I(runwayMonths)>>)
      \o (IF t.isPessimistic /\ NLt(lastYear.ebitda, I(0))
          THEN <<(<<"costReduction", I(0)>>)>>
          ELSE IF t.isOptimistic /\ NLt(avgEbitdaMargin, I(20))
          THEN <<(<<"optimizeOperations", I(0)>>)>>
          ELSE <<>>)

\* The ValidationResult, computed on the table as adjusted.
validateFinancialModel(table, scenario, industry) ==
  LET adjusted == validateTable(table, scenario, industry)
      metrics == getIndustryBenchmarks(adjusted, industry).metrics
      n == Len(scenario.projections)
      errorsAt(i) == yearErrors(scenario.projections[i])
      t == scenarioFlags(scenario.name)
      warningsAt(i) == yearWarnings(metrics, scenario, t, i)
      errors == pushedInOrder([i \in 1..n |-> errorsAt(i)])
      warnings == pushedInOrder([i \in 1..n |-> warningsAt(i)])
      reliability == IF Len(errors) > 0 THEN "Low"
                     ELSE IF Len(warnings) > 2 THEN "Medium" ELSE "High"
  IN  [isValid |-> Len(errors) = 0,
       warnings |-> warnings,
       errors |-> errors,
       recommendations |-> validateRecommendations(metrics, scenario, t),
       reliability |-> reliability]

---------------------------------------------------------------------------
(* RunwayCalculator: calculateRunway                                       *)

\* An optional argument that was not passed, and JavaScript truthiness.
Undefined == [k |-> "undef", n |-> 0, d |-> 1]
Falsy(x) == x.k = "undef" \/ x.k = "nan" \/ x = I(0)
OrElse(x, y) == IF Falsy(x) THEN y ELSE x

runwayTier(runwayMonths) ==
  IF NEq(runwayMonths, I(0)) THEN [status |-> "Exhausted", riskLevel |-> "Critical"]
  ELSE IF NLt(runwayMonths, I(3)) THEN [status |-> "Critical", riskLevel |-> "Critical"]
  ELSE IF NLt(runwayMonths, I(6)) THEN [status |-> "Critical", riskLevel |-> "High"]
  ELSE IF NLt(runwayMonths, I(12)) THEN [status |-> "Caution", riskLevel |-> "Medium"]
  ELSE IF NLt(runwayMonths, I(18)) THEN [status |-> "Caution", riskLevel |-> "Medium"]
  ELSE [status |-> "Healthy", riskLevel |-> "Low"]

\* Math.round(runwayMonths * 10) / 10
runwayMonthsReturned(runwayMonths) == NDiv(MathRound(NMul(runwayMonths, I(10))), I(10))

\* The label is determined by status and riskLevel and is left out.
calculateRunway(currentCash, monthlyBurn, monthlyRevenue) ==
  LET safeCash == MathMax(I(0), currentCash)
      safeBurn == MathMax(I(1), monthlyBurn)
      netBurn == MathMax(I(1), NSub(safeBurn, monthlyRevenue))
      runwayMonths == MathMax(I(0), NDiv(safeCash, netBurn))
      tier == runwayTier(runwayMonths)
  IN  [months |-> runwayMonthsReturned(runwayMonths),
       status |-> tier.status,
       riskLevel |-> tier.riskLevel]

formatRunwayDisplay(runway) ==
  IF NEq(runway.months, I(0)) THEN "Exhausted" ELSE runway.status

---------------------------------------------------------------------------
(* BreakEvenAnalyzer: calculateBreakEven                                   *)

\* monthsToBreakEven before rounding.
monthsToBreakEvenOf(firstYear, secondYear, breakEvenRevenue, runway) ==
  IF NGe(firstYear.revenue, breakEvenRevenue) THEN I(0)
  ELSE LET revenueGap == NSub(breakEvenRevenue, firstYear.revenue)
           monthlyGrowth == NDiv(NSub(secondYear.revenue, firstYear.revenue), I(12))
       IN  IF NGt(monthlyGrowth, I(0))
           THEN MathMin(I(36), NDiv(revenueGap, monthlyGrowth))
           ELSE runway.months

\* A variant that grades every company by its runway, without the check for
\* a company that already breaks even.
breakEvenProbabilityByRunway(monthsToBreakEven, runway) ==
  IF NLe(monthsToBreakEven, runway.months) /\ NGt(runway.months, I(12)) THEN 80
  ELSE IF NLe(monthsToBreakEven, runway.months) THEN 60
  ELSE 30

breakEvenProbability(monthsToBreakEven, runway) ==
  IF NEq(monthsToBreakEven, I(0)) THEN 100
  ELSE IF NLe(monthsToBreakEven, runway.months) /\ NGt(runway.months, I(12)) THEN 80
  ELSE IF NLe(monthsToBreakEven, runway.months) THEN 60
  ELSE 30

\* assumptions: pricePerUnit, currentCash, userInputs (monthlyExpenses,
\* availableCash), each Undefined when not passed.  strategy is modelled by
\* the one line of it that varies with anything but breakEvenRevenue.
calculateBreakEven(scenario, assumptions) ==
  LET firstYear == scenario.projections[1]
      secondYear == scenario.projections[2]
      currentCash == OrElse(assumptions.currentCash,
                            OrElse(assumptions.availableCash, firstYear.cashBalance))
      userMonthlyExpenses == OrElse(assumptions.monthlyExpenses, I(0))
      actualMonthlyCosts ==
        MathMax(userMonthlyExpenses, NDiv(NAdd(firstYear.cogs, firstYear.opex), I(12)))
      monthlyRevenue == NDiv(firstYear.revenue, I(12))
      runway == calculateRunway(currentCash, actualMonthlyCosts, monthlyRevenue)
      fixedCosts == firstYear.opex
      variableCostRatio == NDiv(firstYear.cogs, firstYear.revenue)
      contributionMarginRatio == NSub(I(1), variableCostRatio)
      breakEvenRevenue == NDiv(fixedCosts, contributionMarginRatio)
      breakEvenUnits == IF ~Falsy(assumptions.pricePerUnit)
                        THEN NDiv(breakEvenRevenue, assumptions.pricePerUnit)
                        ELSE NDiv(breakEvenRevenue, I(100))
      marginOfSafety ==
        NMul(NDiv(NSub(firstYear.revenue, breakEvenRevenue), firstYear.revenue), I(100))
      contributionMargin == NSub(firstYear.revenue, firstYear.cogs)
      operatingLeverage == IF NGt(firstYear.ebitda, I(0))
                           THEN NDiv(contributionMargin, firstYear.ebitda) ELSE I(0)
      breakEvenMonth == IF NGt(monthlyRevenue, I(0))
                        THEN NDiv(breakEvenRevenue, monthlyRevenue) ELSE I(0)
      monthsToBreakEven == monthsToBreakEvenOf(firstYear, secondYear, breakEvenRevenue, runway)
      requiredGrowthRate ==
        IF NGt(firstYear.revenue, I(0))
        THEN NMul(NDiv(NSub(breakEvenRevenue, firstYear.revenue), firstYear.revenue), I(100))
        ELSE I(100)
  IN  [breakEvenRevenue |-> breakEvenRevenue,
       breakEvenUnits |-> breakEvenUnits,
       marginOfSafety |-> marginOfSafety,
       operatingLeverage |-> operatingLeverage,
       runway |-> runway,
       burnRate |-> actualMonthlyCosts,
       breakEvenMonth |-> breakEvenMonth,
       monthsToBreakEven |-> MathRound(monthsToBreakEven),
       requiredGrowthRate |-> NDiv(MathRound(NMul(requiredGrowthRate, I(10))), I(10)),
       probability |-> breakEvenProbability(monthsToBreakEven, runway),
       strategy |-> IF NLt(runway.months, I(6)) THEN "urgent" ELSE "plan"]

---------------------------------------------------------------------------
(* ValuationEngine: calculateValuation                                     *)

\* The scenarios handed to calculateValuation carry their amounts in lakh
\* (100,000 currency units, the unit of the source's comments) so that the
\* discounted sums stay exact; every output amount is in lakh as well, and
\* so is the number of shares, which leaves sharePrice in currency units.
Lakh == 100 * 1000

\* A variant of the gate that looks at the revenue only.
isEarlyStageByRevenue(firstYear) ==
  NLt(NMul(firstYear.revenue, I(Lakh)), I(1000000))

\* firstYear.revenue < 1000000 && firstYear.ebitda < 0
isEarlyStage(firstYear) ==
  NLt(NMul(firstYear.revenue, I(Lakh)), I(1000000)) /\ NLt(firstYear.ebitda, I(0))

stageMultiplierOf(early) == IF early THEN Pct(60) ELSE I(1)

\* The free cash flow of one projection inside the forEach.
yearFcf(proj) ==
  LET taxRate == Pct(30)
      capexRate == Pct(3)
      workingCapitalChange == MathMax(I(0), NMul(proj.revenue, Pct(5)))
  IN  IF NGt(proj.ebitda, I(0))
      THEN NSub(NSub(NMul(proj.ebitda, NSub(I(1), taxRate)), NMul(proj.revenue, capexRate)),
                workingCapitalChange)
      ELSE NMul(proj.revenue, Pct(10))

RECURSIVE presentValueOf(_, _, _)
presentValueOf(projections, wacc, index) ==
  IF index > Len(projections) THEN I(0)
  ELSE NAdd(NDiv(MathMax(yearFcf(projections[index]), I(0)),
                 MathPow(NAdd(I(1), wacc), index)),
            presentValueOf(projections, wacc, index + 1))

discountedTerminalValueOf(projections, wacc, terminalGrowthRate) ==
  LET lastYear == projections[Len(projections)]
      finalFCF == IF NGt(lastYear.ebitda, I(0))
                  THEN NSub(NSub(NMul(lastYear.ebitda, NSub(I(1), Pct(30))),
                                 NMul(lastYear.revenue, Pct(3))),
                            NMul(lastYear.revenue, Pct(5)))
                  ELSE NMul(lastYear.revenue, Pct(15))
      terminalFCF == NMul(finalFCF, NAdd(I(1), terminalGrowthRate))
      terminalValue == NDiv(terminalFCF, NSub(wacc, terminalGrowthRate))
  IN  NDiv(terminalValue, MathPow(NAdd(I(1), wacc), Len(projections)))

\* The primary valuation the stage gate selects.
primaryValuationOf(early, lastYear, multiples, enterpriseValue) ==
  IF early
  THEN NMul(lastYear.revenue, NMul(multiples.revenue, stageMultiplierOf(early)))
  ELSE enterpriseValue

DefaultMultiples == [revenue |-> I(4), ebitda |-> I(20), pe |-> I(25)]

\* assumptions: wacc, terminalGrowthRate, sharesOutstanding (Undefined when
\* not passed) and industryMultiples (<<>> when not passed, else <<m>>).
calculateValuation(scenario, assumptions) ==
  LET wacc == OrElse(assumptions.wacc, Pct(15))
      terminalGrowthRate == OrElse(assumptions.terminalGrowthRate, Fin(25, 1000))
      sharesOutstanding == OrElse(assumptions.sharesOutstanding, I(1000000 \div Lakh))
      multiples == IF Len(assumptions.industryMultiples) = 0
                   THEN DefaultMultiples ELSE assumptions.industryMultiples[1]
      lastYear == scenario.projections[Len(scenario.projections)]
      firstYear == scenario.projections[1]
      early == isEarlyStage(firstYear)
      stageMultiplier == stageMultiplierOf(early)
      presentValue == presentValueOf(scenario.projections, wacc, 1)
      discountedTerminalValue ==
        discountedTerminalValueOf(scenario.projections, wacc, terminalGrowthRate)
      adjustedRevenueMultiple == NMul(multiples.revenue, stageMultiplier)
      adjustedEbitdaMultiple == NMul(multiples.ebitda, stageMultiplier)
      enterpriseValue == NAdd(presentValue, discountedTerminalValue)
      primaryValuation == primaryValuationOf(early, lastYear, multiples, enterpriseValue)
  IN  [dcfValuation |-> enterpriseValue,
       terminalValue |-> NMul(discountedTerminalValue, stageMultiplier),
       presentValue |-> NMul(presentValue, stageMultiplier),
       wacc |-> wacc,
       enterpriseValue |-> primaryValuation,
       equityValue |-> primaryValuation,
       sharePrice |-> NDiv(primaryValuation, sharesOutstanding),
       multipleValuation |->
         [revenueMultiple |-> NMul(lastYear.revenue, adjustedRevenueMultiple),
          ebitdaMultiple |-> IF NGt(lastYear.ebitda, I(0))
                             THEN NMul(lastYear.ebitda, adjustedEbitdaMultiple) ELSE I(0),
          peRatio |-> IF NGt(lastYear.netIncome, I(0))
                      THEN NMul(NMul(lastYear.netIncome, multiples.pe), stageMultiplier)
                      ELSE I(0)],
       valuationMethod |-> IF early THEN "Revenue Multiple" ELSE "DCF"]

---------------------------------------------------------------------------
(* State                                                                   *)

VARIABLES
  INDUSTRY_BENCHMARKS,  \* the module-level benchmark table
  benchCall,            \* <<>>, or the last compareToMarket / validateFinancialModel call
  nCalls,               \* how many such calls the Dashboard has made
  inputs,               \* the UserInputs handed to generateScenariosFromInputs
  scenarios,            \* the ScenarioData[] it returned, <<>> before the call
  budget,               \* <<>>, or the last analyzeBudget call on a generated scenario
  runwayIn, runwayOut,        \* calculateRunway: arguments, and <<result>> once called
  breakEvenIn, breakEvenOut,  \* calculateBreakEven
  valuationIn, valuationOut,  \* calculateValuation
  budgetIn, budgetOut,            \* analyzeBudget called with a pool of the caller's choice
  fundingIn, fundingOut,          \* calculateFundingRequirements
  sensitivityIn, sensitivityOut,  \* performSensitivityAnalysis
  llmOp,        \* the LLM-backed operation in flight and its user input, or NoInput
  pc,           \* where that operation stands: "idle", "invoke", "wait", "settled"
  retries,      \* retryWithDelay's parameter of the current (recursive) call
  delay,        \* retryWithDelay's delay parameter, in milliseconds
  invoked,      \* how many times the request fn has been invoked
  waited,       \* the delays waited so far, in order
  llmOut,       \* <<>>, or <<how the operation's promise settled>>
  validationIn, validationOut,    \* handleGenerate / generatePDFReport input checks
  ratiosIn,       \* the scenario and cash the report and the investor view work on
  ratiosOut,      \* <<>>, or <<the four metric results generatePDFReport computes>>
  comparisonOut,  \* <<>>, or <<the result of compareToBenchmarks>>
  dashboardMounted,   \* whether a Dashboard instance is mounted
  activeScenarioIdx,  \* the Dashboard's state of that name
  aiAnalysis,         \* the Dashboard's state of that name
  requests,           \* the analyzeRatios requests in flight, each with its effect's isMounted
  requested,          \* how many analyzeRatios requests have been made
  loadingState,       \* App's state of that name
  appScenarios,       \* App's scenarios state: <<>> for null, or <<the generated value>>
  errorMsg,           \* App's state of that name, "null" for null
  benchmarkData,      \* App's state of that name: <<>> for undefined, or <<the record>>
  benchmarksStr,      \* handleGenerate's local of that name
  run                 \* the await handleGenerate is suspended at, and its input

vars == <<INDUSTRY_BENCHMARKS, benchCall, nCalls, inputs, scenarios, budget,
          runwayIn, runwayOut, breakEvenIn, breakEvenOut, valuationIn, valuationOut,
          budgetIn, budgetOut, fundingIn, fundingOut, sensitivityIn, sensitivityOut,
          llmOp, pc, retries, delay, invoked, waited, llmOut,
          validationIn, validationOut,
          ratiosIn, ratiosOut, comparisonOut,
          dashboardMounted, activeScenarioIdx, aiAnalysis, requests, requested,
          loadingState, appScenarios, errorMsg, benchmarkData, benchmarksStr, run>>

benchVars == <<INDUSTRY_BENCHMARKS, benchCall, nCalls>>
projectorVars == <<inputs, scenarios, budget>>
runwayVars == <<runwayIn, runwayOut>>
breakEvenVars == <<breakEvenIn, breakEvenOut>>
valuationVars == <<valuationIn, valuationOut>>
budgetVars == <<budgetIn, budgetOut>>
fundingVars == <<fundingIn, fundingOut>>
sensitivityVars == <<sensitivityIn, sensitivityOut>>
llmVars == <<llmOp, pc, retries, delay, invoked, waited, llmOut>>
validationVars == <<validationIn, validationOut>>
ratiosVars == <<ratiosIn, ratiosOut, comparisonOut>>
analysisVars == <<dashboardMounted, activeScenarioIdx, aiAnalysis, requests, requested>>
appVars == <<loadingState, appScenarios, errorMsg, benchmarkData, benchmarksStr, run>>
uiVars == <<ratiosVars, analysisVars, appVars>>

NoInput == [none |-> TRUE]

BenchIdle == INDUSTRY_BENCHMARKS = InitialBenchmarks /\ benchCall = <<>> /\ nCalls = 0
ProjectorIdle == inputs = NoInput /\ scenarios = <<>> /\ budget = <<>>
RunwayIdle == runwayIn = NoInput /\ runwayOut = <<>>
BreakEvenIdle == breakEvenIn = NoInput /\ breakEvenOut = <<>>
ValuationIdle == valuationIn = NoInput /\ valuationOut = <<>>
BudgetIdle == budgetIn = NoInput /\ budgetOut = <<>>
FundingIdle == fundingIn = NoInput /\ fundingOut = <<>>
SensitivityIdle == sensitivityIn = NoInput /\ sensitivityOut = <<>>
LlmIdle ==
  /\ llmOp = NoInput /\ pc = "idle" /\ retries = 0 /\ delay = 0
  /\ invoked = 0 /\ waited = <<>> /\ llmOut = <<>>
ValidationIdle == validationIn = NoInput /\ validationOut = <<>>
RatiosIdle == ratiosIn = NoInput /\ ratiosOut = <<>> /\ comparisonOut = <<>>
NoAnalysis == [kind |-> "none", scenario |-> 0, text |-> ""]
AnalysisIdle ==
  /\ dashboardMounted = FALSE /\ activeScenarioIdx = 0 /\ aiAnalysis = NoAnalysis
  /\ requests = <<>> /\ requested = 0
NoRun == [pc |-> "none", input |-> NoInput]
AppIdle ==
  /\ loadingState = "IDLE" /\ appScenarios = <<>> /\ errorMsg = "null"
  /\ benchmarkData = <<>> /\ benchmarksStr = "" /\ run = NoRun
UiIdle == RatiosIdle /\ AnalysisIdle /\ AppIdle
\* The services of the later sections, none of them called.
ServicesIdle ==
  BudgetIdle /\ FundingIdle /\ SensitivityIdle /\ LlmIdle /\ ValidationIdle /\ UiIdle

\* A FinancialYear with whole-number fields.
Year(y, revenue, cogs, grossProfit, opex, ebitda, netIncome, cashBalance) ==
  [year |-> y, revenue |-> I(revenue), cogs |-> I(cogs), grossProfit |-> I(grossProfit),
   opex |-> I(opex), ebitda |-> I(ebitda), netIncome |-> I(netIncome),
   cashBalance |-> I(cashBalance)]

---------------------------------------------------------------------------
(* The Dashboard's benchmark calls: compareToMarket on every render,       *)
(* validateFinancialModel while the validation panel is shown              *)

MaxCalls == 3

\* Projections whose three-year revenue ratio is a perfect cube: a growing,
\* profitable company (CAGR 20%) and a shrinking, loss-making one (-20%).
GrowingProjections ==
  <<Year(1, 1000, 300, 700, 500, 200, 140, 500),
    Year(2, 1200, 360, 840, 560, 280, 196, 696),
    Year(3, 1728, 518, 1210, 700, 510, 357, 1053)>>

ShrinkingProjections ==
  <<Year(1, 1000, 550, 450, 600, -150, -150, 300),
    Year(2, 800, 440, 360, 500, -140, -140, 160),
    Year(3, 512, 282, 230, 400, -170, -170, 0)>>

\* The names generateFinancialModel's scenarios carry, and the name
\* generateScenariosFromInputs gives its optimistic scenario.
DashboardNames ==
  {"Base Case", "Optimistic Case", "Pessimistic Case", scenarioName("optimistic", "Acme")}

DashboardScenarios ==
  [name : DashboardNames, projections : {GrowingProjections, ShrinkingProjections}]

\* The industry selector's values, and one the table does not hold.
DashboardIndustries == {"SaaS", "E-commerce", "Other"}

CompareToMarket(scenario, industry) ==
  /\ nCalls < MaxCalls
  /\ INDUSTRY_BENCHMARKS' = compareToMarketTable(INDUSTRY_BENCHMARKS, scenario, industry)
  /\ benchCall' = <<[fn |-> "compareToMarket", scenario |-> scenario, industry |-> industry,
                     result |-> compareToMarketResult(INDUSTRY_BENCHMARKS, scenario, industry)]>>
  /\ nCalls' = nCalls + 1
  /\ UNCHANGED <<projectorVars, runwayVars, breakEvenVars, valuationVars,
               budgetVars, fundingVars, sensitivityVars, llmVars, validationVars, uiVars>>

ValidateFinancialModel(scenario, industry) ==
  /\ nCalls < MaxCalls
  /\ INDUSTRY_BENCHMARKS' = validateTable(INDUSTRY_BENCHMARKS, scenario, industry)
  /\ benchCall' = <<[fn |-> "validateFinancialModel", scenario |-> scenario,
                     industry |-> industry,
                     result |-> validateFinancialModel(INDUSTRY_BENCHMARKS, scenario, industry)]>>
  /\ nCalls' = nCalls + 1
  /\ UNCHANGED <<projectorVars, runwayVars, breakEvenVars, valuationVars,
               budgetVars, fundingVars, sensitivityVars, llmVars, validationVars, uiVars>>

Init ==
  /\ BenchIdle /\ ProjectorIdle /\ RunwayIdle /\ BreakEvenIdle /\ ValuationIdle /\ ServicesIdle

Next ==
  \/ \E sc \in DashboardScenarios, ind \in DashboardIndustries : CompareToMarket(sc, ind)
  \/ \E sc \in DashboardScenarios, ind \in DashboardIndustries : ValidateFinancialModel(sc, ind)

Spec == Init /\ [][Next]_vars

---------------------------------------------------------------------------
(* generateScenariosFromInputs and the calculations run on its scenarios   *)

MaxRevenueHalves == 5
MaxExpenseTenths == 3
MaxCashHalves == 3

ProjectorIndustries == DOMAIN baseProfiles \cup {"Other"}
\* Tax rates 0.30, 0.25, 0.35, and a country the table does not hold.
ProjectorCountries == {"India", "Spain", "Malta", "Atlantis"}
CompanyNames == {"", "Acme"}

\* Inputs that pass validation (revenue > 0, monthly expenses > 0,
\* cash >= 0): small amounts in halves and tenths of a currency unit, and
\* the spec's worked example.
SmallInputs ==
  [companyName : CompanyNames,
   annualRevenue : {Fin(k, 2) : k \in 1..MaxRevenueHalves},
   monthlyExpenses : {Fin(k, 10) : k \in 1..MaxExpenseTenths},
   availableCash : {Fin(k, 2) : k \in 0..MaxCashHalves},
   industry : ProjectorIndustries,
   country : ProjectorCountries]

ExampleInput ==
  [companyName |-> "Acme", annualRevenue |-> I(500000), monthlyExpenses |-> I(35000),
   availableCash |-> I(120000), industry |-> "SaaS", country |-> "India"]

ProjectorInputs == SmallInputs \cup {ExampleInput}

GenerateScenarios ==
  /\ scenarios = <<>>
  /\ scenarios' = generateScenariosFromInputs(inputs)
  /\ UNCHANGED <<inputs, budget, benchVars, runwayVars, breakEvenVars, valuationVars,
               budgetVars, fundingVars, sensitivityVars, llmVars, validationVars, uiVars>>

\* analyzeBudget(scenario, currentCash) on the i-th generated scenario.
AnalyzeBudget(i) ==
  /\ scenarios # <<>>
  /\ budget' = <<[index |-> i, result |-> analyzeBudget(scenarios[i], inputs.availableCash)]>>
  /\ UNCHANGED <<inputs, scenarios, benchVars, runwayVars, breakEvenVars, valuationVars,
               budgetVars, fundingVars, sensitivityVars, llmVars, validationVars, uiVars>>

InitProjector ==
  /\ inputs \in ProjectorInputs /\ scenarios = <<>> /\ budget = <<>>
  /\ BenchIdle /\ RunwayIdle /\ BreakEvenIdle /\ ValuationIdle /\ ServicesIdle

NextProjector ==
  \/ GenerateScenarios
  \/ \E i \in 1..3 : AnalyzeBudget(i)

SpecProjector == InitProjector /\ [][NextProjector]_vars


---------------------------------------------------------------------------
(* calculateRunway and formatRunwayDisplay on whole-number arguments       *)

MaxCash == 40
MaxBurn == 30
MaxMonthlyRevenue == 2

RunwayInputs ==
  [currentCash : {I(c) : c \in -1..MaxCash},
   monthlyBurn : {I(b) : b \in 0..MaxBurn},
   monthlyRevenue : {I(r) : r \in 0..MaxMonthlyRevenue}]

CalculateRunway ==
  /\ runwayOut = <<>>
  /\ runwayOut' = <<[result |-> calculateRunway(runwayIn.currentCash, runwayIn.monthlyBurn,
                                                runwayIn.monthlyRevenue),
                     display |-> ""]>>
  /\ UNCHANGED <<runwayIn, benchVars, projectorVars, breakEvenVars, valuationVars,
               budgetVars, fundingVars, sensitivityVars, llmVars, validationVars, uiVars>>

FormatRunwayDisplay ==
  /\ runwayOut # <<>>
  /\ runwayOut[1].display = ""
  /\ runwayOut' = <<[runwayOut[1] EXCEPT !.display = formatRunwayDisplay(runwayOut[1].result)]>>
  /\ UNCHANGED <<runwayIn, benchVars, projectorVars, breakEvenVars, valuationVars,
               budgetVars, fundingVars, sensitivityVars, llmVars, validationVars, uiVars>>

InitRunway ==
  /\ runwayIn \in RunwayInputs /\ runwayOut = <<>>
  /\ BenchIdle /\ ProjectorIdle /\ BreakEvenIdle /\ ValuationIdle /\ ServicesIdle

NextRunway == CalculateRunway \/ FormatRunwayDisplay

SpecRunway == InitRunway /\ [][NextRunway]_vars

---------------------------------------------------------------------------
(* calculateBreakEven on scenarios with small whole-number amounts         *)

\* Amounts are multiples of AmountStep, so that a year splits into twelve
\* whole months.
AmountStep == 6 * 5
MaxRevenueSteps == 4
MaxCogsSteps == 5
MaxOpexSteps == 3
MaxCashSteps == 2
MaxGrowthSteps == 2

BreakEvenScenario(rev, cogs, opex, cash, rev2) ==
  [name |-> "Base Case",
   projections |->
     <<Year(1, rev, cogs, rev - cogs, opex, rev - cogs - opex, rev - cogs - opex, cash),
       Year(2, rev2, cogs, rev2 - cogs, opex, rev2 - cogs - opex, rev2 - cogs - opex, cash),
       Year(3, rev2, cogs, rev2 - cogs, opex, rev2 - cogs - opex, rev2 - cogs - opex, cash)>>]

BreakEvenScenarios ==
  {BreakEvenScenario(r * AmountStep, c * AmountStep, o * AmountStep, k * AmountStep,
                     (r + g) * AmountStep) :
     r \in 0..MaxRevenueSteps, c \in 0..MaxCogsSteps, o \in 0..MaxOpexSteps,
     k \in 0..MaxCashSteps, g \in -1..MaxGrowthSteps}

\* {} ; the Dashboard's { pricePerUnit: 100, variableCostPerUnit: 40 } ; a
\* call that passes currentCash and userInputs ; and one that passes a
\* currentCash of two and a half steps, which lasts 15 months at a net burn
\* of two steps a year.
BreakEvenAssumptions ==
  {[pricePerUnit |-> Undefined, currentCash |-> Undefined,
    availableCash |-> Undefined, monthlyExpenses |-> Undefined],
   [pricePerUnit |-> I(100), currentCash |-> Undefined,
    availableCash |-> Undefined, monthlyExpenses |-> Undefined],
   [pricePerUnit |-> I(100), currentCash |-> I(0),
    availableCash |-> I(AmountStep), monthlyExpenses |-> I(AmountStep)],
   [pricePerUnit |-> Undefined, currentCash |-> I((5 * AmountStep) \div 2),
    availableCash |-> Undefined, monthlyExpenses |-> Undefined]}

CalculateBreakEven ==
  /\ breakEvenOut = <<>>
  /\ breakEvenOut' = <<calculateBreakEven(breakEvenIn.scenario, breakEvenIn.assumptions)>>
  /\ UNCHANGED <<breakEvenIn, benchVars, projectorVars, runwayVars, valuationVars,
               budgetVars, fundingVars, sensitivityVars, llmVars, validationVars, uiVars>>

InitBreakEven ==
  /\ breakEvenIn \in [scenario : BreakEvenScenarios, assumptions : BreakEvenAssumptions]
  /\ breakEvenOut = <<>>
  /\ BenchIdle /\ ProjectorIdle /\ RunwayIdle /\ ValuationIdle /\ ServicesIdle

NextBreakEven == CalculateBreakEven

SpecBreakEven == InitBreakEven /\ [][NextBreakEven]_vars

---------------------------------------------------------------------------
(* calculateValuation on three-year scenarios with amounts in lakh         *)

MaxRevenueLakh == 11
MaxEbitdaHalfLakh == 2
MaxGrowthLakh == 2

LakhYear(y, revenue, ebitda) ==
  [year |-> y, revenue |-> revenue, cogs |-> NMul(revenue, Pct(30)),
   grossProfit |-> NMul(revenue, Pct(70)),
   opex |-> NSub(NMul(revenue, Pct(70)), ebitda),
   ebitda |-> ebitda, netIncome |-> ebitda, cashBalance |-> I(1)]

\* Year-1 revenue from 1 to MaxRevenueLakh lakh (the gate is at 10 lakh) and
\* year-1 EBITDA in half lakhs around zero; revenue and EBITDA then grow by
\* g and g/2 lakh a year.
ValuationScenarios ==
  {[name |-> "Base Case",
    projections |->
      <<LakhYear(1, I(r), Fin(e, 2)),
        LakhYear(2, I(r + g), Fin(e + g, 2)),
        LakhYear(3, I(r + 2 * g), Fin(e + 2 * g, 2))>>] :
     r \in 1..MaxRevenueLakh, e \in -MaxEbitdaHalfLakh..MaxEbitdaHalfLakh,
     g \in 0..MaxGrowthLakh}

\* calculateValuation(baseScenario, {}) and the Dashboard's call for the SaaS
\* benchmarks: wacc 0.12, terminalGrowthRate 0.025, multiples 6 / 25 / 25.
ValuationAssumptions ==
  {[wacc |-> Undefined, terminalGrowthRate |-> Undefined,
    sharesOutstanding |-> Undefined, industryMultiples |-> <<>>],
   [wacc |-> Pct(12), terminalGrowthRate |-> Fin(25, 1000),
    sharesOutstanding |-> Undefined,
    industryMultiples |-> <<[revenue |-> I(6), ebitda |-> I(25), pe |-> I(25)]>>]}

CalculateValuation ==
  /\ valuationOut = <<>>
  /\ valuationOut' = <<calculateValuation(valuationIn.scenario, valuationIn.assumptions)>>
  /\ UNCHANGED <<valuationIn, benchVars, projectorVars, runwayVars, breakEvenVars,
               budgetVars, fundingVars, sensitivityVars, llmVars, validationVars, uiVars>>

InitValuation ==
  /\ valuationIn \in [scenario : ValuationScenarios, assumptions : ValuationAssumptions]
  /\ valuationOut = <<>>
  /\ BenchIdle /\ ProjectorIdle /\ RunwayIdle /\ BreakEvenIdle /\ ServicesIdle

NextValuation == CalculateValuation

SpecValuation == InitValuation /\ [][NextValuation]_vars

---------------------------------------------------------------------------
(* Properties of generateScenariosFromInputs                               *)

Generated == scenarios # <<>>
GeneratedYears == {scenarios[i].projections[y] : i \in 1..3, y \in 1..3}

grossProfitGap(p) == MathAbs(NSub(p.grossProfit, NSub(p.revenue, p.cogs)))
ebitdaGap(p) == MathAbs(NSub(p.ebitda, NSub(p.grossProfit, p.opex)))

\* C1: each of the nine FinancialYear records returned by
\* generateScenariosFromInputs has |grossProfit - (revenue - cogs)| <= 1 and
\* |ebitda - (grossProfit - opex)| <= 1.
C1_YearsCoherent ==
  Generated =>
    \A p \in GeneratedYears :
      NLe(grossProfitGap(p), I(1)) /\ NLe(ebitdaGap(p), I(1))

\* Scenarios have been generated and rounding has used the whole tolerance:
\* one record is off by exactly 1 in gross profit, one in EBITDA.
C1_Witness ==
  /\ Generated
  /\ \E p \in GeneratedYears : NEq(grossProfitGap(p), I(1))
  /\ \E p \in GeneratedYears : NEq(ebitdaGap(p), I(1))

\* C2: in each returned scenario the year-1 revenue equals the caller's
\* annualRevenue exactly, the revenue of year 2 and 3 is
\* round(annualRevenue * g^(y-1)) with g = 1.10, 1.25, 0.95 for the base,
\* optimistic and pessimistic scenario, and the year field runs 1, 2, 3.
C2_RevenueAsEntered ==
  Generated =>
    \A i \in 1..3 :
      LET proj == scenarios[i].projections IN
      /\ NEq(proj[1].revenue, inputs.annualRevenue)
      /\ \A y \in 2..3 :
           NEq(proj[y].revenue,
               MathRound(NMul(inputs.annualRevenue,
                              MathPow(Pct(growthPct(Policies[i])), y - 1))))
      /\ \A y \in 1..3 : proj[y].year = y

\* The cash the loop carries into year y of scenario i.
cashBefore(i, y) ==
  IF y = 1 THEN inputs.availableCash ELSE scenarios[i].projections[y - 1].cashBalance

cashExpected(i, y) ==
  MathMax(I(0), NAdd(cashBefore(i, y), scenarios[i].projections[y].netIncome))

\* C3: in every returned scenario cashBalance[1] = max(0, startingCash +
\* netIncome[1]) and cashBalance[y] = max(0, cashBalance[y-1] + netIncome[y])
\* for y = 2, 3, within a rounding tolerance of 1, and cashBalance >= 0 in
\* every year.
C3_CashCarriedAndClamped ==
  Generated =>
    \A i \in 1..3, y \in 1..3 :
      LET cash == scenarios[i].projections[y].cashBalance IN
      /\ NLe(MathAbs(NSub(cash, cashExpected(i, y))), I(1))
      /\ NGe(cash, I(0))

\* A generated scenario in which the clamp acted in year 1 and again on the
\* carried balance in year 2: the cash brought in plus the year's loss is
\* below zero and the stored balance is 0.
C3_Witness ==
  /\ Generated
  /\ \E i \in 1..3 : \A y \in 1..2 :
       /\ NLt(NAdd(cashBefore(i, y), scenarios[i].projections[y].netIncome), I(0))
       /\ NEq(scenarios[i].projections[y].cashBalance, I(0))

\* The marketing share analyzeBudget allocates under each policy.
marketingShare(policy) ==
  CASE policy = "base" -> 15
    [] policy = "optimistic" -> 25
    [] policy = "pessimistic" -> 10

\* C4: analyzeBudget and validateFinancialModel classify the scenario
\* generated under the optimistic policy as optimistic, the one generated
\* under the pessimistic policy as pessimistic and the base scenario as
\* neither: each generated scenario gets the budget allocation of its policy
\* and the flags of its policy.
C4_NamesIdentifyPolicy ==
  /\ budget # <<>> =>
       budget[1].result.allocation.marketing.percentage
         = marketingShare(Policies[budget[1].index])
  /\ Generated =>
       \A i \in 1..3 :
         LET t == scenarioFlags(scenarios[i].name) IN
         /\ t.isOptimistic <=> Policies[i] = "optimistic"
         /\ t.isPessimistic <=> Policies[i] = "pessimistic"

---------------------------------------------------------------------------
(* Properties of the benchmark table and the functions around it           *)

\* C5: the static industry-benchmark table is never mutated: after any
\* sequence of validateFinancialModel and compareToMarket calls,
\* getIndustryBenchmarks(industry) returns for every industry the same
\* min/avg/max values as at startup.
C5_TableAsAtStartup ==
  \A industry \in DOMAIN InitialBenchmarks \cup DashboardIndustries :
    getIndustryBenchmarks(INDUSTRY_BENCHMARKS, industry)
      = getIndustryBenchmarks(InitialBenchmarks, industry)

\* What the last call returns when nothing was called before it.
resultAtStartup(call) ==
  IF call.fn = "compareToMarket"
  THEN compareToMarketResult(InitialBenchmarks, call.scenario, call.industry)
  ELSE validateFinancialModel(InitialBenchmarks, call.scenario, call.industry)

\* C6: for a fixed scenario and industry the result of compareToMarket and
\* of validateFinancialModel is the same whatever was invoked before it, in
\* whatever order and however many times: the result of every call equals
\* the result of the same call made first.
C6_ResultIndependentOfHistory ==
  benchCall # <<>> => benchCall[1].result = resultAtStartup(benchCall[1])

---------------------------------------------------------------------------
(* Properties of calculateRunway                                           *)

\* The tier table, read on a months value.
tierOfMonths(months) ==
  IF NEq(months, I(0)) THEN <<"Exhausted", "Critical">>
  ELSE IF NLt(months, I(3)) THEN <<"Critical", "Critical">>
  ELSE IF NLt(months, I(6)) THEN <<"Critical", "High">>
  ELSE IF NLt(months, I(18)) THEN <<"Caution", "Medium">>
  ELSE <<"Healthy", "Low">>

\* C7: in every record returned by calculateRunway the status/riskLevel pair
\* is the one the tier table assigns to the returned months value, and the
\* returned months is 0 exactly when status is Exhausted.
C7_TierOfReturnedMonths ==
  runwayOut # <<>> =>
    LET r == runwayOut[1].result IN
    /\ <<r.status, r.riskLevel>> = tierOfMonths(r.months)
    /\ NEq(r.months, I(0)) <=> r.status = "Exhausted"

---------------------------------------------------------------------------
(* Properties of calculateBreakEven                                        *)

\* revenue1 >= opex1 / (1 - cogs1 / revenue1)
atBreakEven(firstYear) ==
  NGe(firstYear.revenue,
      NDiv(firstYear.opex, NSub(I(1), NDiv(firstYear.cogs, firstYear.revenue))))

\* C8: for every scenario whose year-1 revenue is at least the break-even
\* revenue opex1 / (1 - cogs1/revenue1), calculateBreakEven returns
\* monthsToBreakEven == 0 and probability == 100.
C8_AlreadyBreakingEven ==
  (breakEvenOut # <<>> /\ atBreakEven(breakEvenIn.scenario.projections[1])) =>
    /\ NEq(breakEvenOut[1].monthsToBreakEven, I(0))
    /\ breakEvenOut[1].probability = 100

\* A call on a company that breaks even in year 1 while its runway is short:
\* no cash, and costs above its revenue.
C8_Witness ==
  /\ breakEvenOut # <<>>
  /\ atBreakEven(breakEvenIn.scenario.projections[1])
  /\ NGt(breakEvenIn.scenario.projections[1].opex, I(0))
  /\ NEq(breakEvenOut[1].runway.months, I(0))
  /\ breakEvenOut[1].probability = 100

---------------------------------------------------------------------------
(* Properties of calculateValuation                                        *)

valuationMultiples ==
  IF Len(valuationIn.assumptions.industryMultiples) = 0 THEN DefaultMultiples
  ELSE valuationIn.assumptions.industryMultiples[1]

\* Present value of the yearly FCF plus the discounted terminal value, for
\* the call in valuationIn.
dcfSum ==
  LET a == valuationIn.assumptions
      wacc == OrElse(a.wacc, Pct(15))
      projections == valuationIn.scenario.projections
  IN  NAdd(presentValueOf(projections, wacc, 1),
           discountedTerminalValueOf(projections, wacc,
                                     OrElse(a.terminalGrowthRate, Fin(25, 1000))))

\* year-1 revenue < 1,000,000 and year-1 EBITDA < 0, with revenue in lakh.
gateHolds ==
  LET firstYear == valuationIn.scenario.projections[1]
  IN  NLt(firstYear.revenue, I(10)) /\ NLt(firstYear.ebitda, I(0))

\* C9: when year-1 revenue < 1,000,000 and year-1 EBITDA < 0 the returned
\* enterpriseValue and equityValue equal lastYear.revenue * (industry revenue
\* multiple * 0.6); in every other case the returned enterpriseValue equals
\* the DCF sum.
C9_StageGate ==
  valuationOut # <<>> =>
    LET lastYear == valuationIn.scenario.projections[3]
        byMultiple == NMul(lastYear.revenue, NMul(valuationMultiples.revenue, Pct(60)))
        v == valuationOut[1]
    IN  IF gateHolds
        THEN NEq(v.enterpriseValue, byMultiple) /\ NEq(v.equityValue, byMultiple)
        ELSE NEq(v.enterpriseValue, dcfSum)

\* A valuation of the 5-lakh, loss-making company of the example: the gate
\* holds and the value returned is not the DCF sum.
C9_Witness ==
  /\ valuationOut # <<>>
  /\ gateHolds
  /\ NEq(valuationIn.scenario.projections[1].revenue, I(5))
  /\ NEq(valuationIn.scenario.projections[1].ebitda, Fin(-1, 2))
  /\ ~NEq(valuationOut[1].enterpriseValue, dcfSum)

\* C10: in every returned record, early-stage or not, dcfValuation ==
\* presentValue + terminalValue.
C10_DcfIsSumOfParts ==
  valuationOut # <<>> =>
    NEq(valuationOut[1].dcfValuation,
        NAdd(valuationOut[1].presentValue, valuationOut[1].terminalValue))

(***************************************************************************)
(* analyzeBudget called with a pool of the caller's choice                 *)
(***************************************************************************)

coreVars == <<benchVars, projectorVars, runwayVars, breakEvenVars, valuationVars>>
CoreIdle == BenchIdle /\ ProjectorIdle /\ RunwayIdle /\ BreakEvenIdle /\ ValuationIdle

MaxPool == 4
MaxBudgetRevenue == 2
MaxBudgetLoss == 2

\* The names the LLM prompt and the fallback of generateFinancialModel give
\* the three scenarios, and one that is pessimistic by "downturn".
BudgetNames == {"Base Case", "Optimistic Case", "Pessimistic Case", "Market Downturn"}

BudgetScenarios ==
  {[name |-> n,
    projections |-> <<Year(1, 12 * r, 12, 12 * r - 12, 12, 12 * r - 24, 12 * ni, 0)>>] :
     n \in BudgetNames, r \in 0..MaxBudgetRevenue, ni \in -MaxBudgetLoss..1}

BudgetPools == {I(p) : p \in 0..MaxPool} \cup {I(120000)}

AnalyzeBudgetOfPool ==
  /\ budgetOut = <<>>
  /\ budgetOut' = <<analyzeBudget(budgetIn.scenario, budgetIn.currentBudget)>>
  /\ UNCHANGED <<budgetIn, coreVars, fundingVars, sensitivityVars, llmVars, validationVars, uiVars>>

InitBudget ==
  /\ budgetIn \in [scenario : BudgetScenarios, currentBudget : BudgetPools]
  /\ budgetOut = <<>>
  /\ CoreIdle /\ FundingIdle /\ SensitivityIdle /\ LlmIdle /\ ValidationIdle /\ UiIdle

NextBudget == AnalyzeBudgetOfPool

SpecBudget == InitBudget /\ [][NextBudget]_vars

(***************************************************************************)
(* Properties of analyzeBudget                                             *)
(***************************************************************************)

\* The weights in percent that the three policies are documented to use.
policyWeights(name) ==
  CASE name = "Optimistic Case" ->
         [operations |-> 60, marketing |-> 25, development |-> 12, reserves |-> 3]
    [] name \in {"Pessimistic Case", "Market Downturn"} ->
         [operations |-> 75, marketing |-> 10, development |-> 5, reserves |-> 10]
    [] OTHER ->
         [operations |-> 70, marketing |-> 15, development |-> 10, reserves |-> 5]

BudgetBuckets == {"operations", "marketing", "development", "reserves"}

poolSplitByWeights(pool, name, result) ==
  /\ \A b \in BudgetBuckets :
       NEq(result.allocation[b].amount, NMul(pool, Pct(policyWeights(name)[b])))
  /\ NEq(NAdd(NAdd(result.allocation.operations.amount,
                   result.allocation.marketing.amount),
              NAdd(result.allocation.development.amount,
                   result.allocation.reserves.amount)),
         pool)
  /\ NEq(result.totalBudget, pool)

\* C11: analyzeBudget splits the pool passed by the caller into four buckets
\* of pool * weight (70/15/10/5 base, 60/25/12/3 optimistic, 75/10/5/10
\* pessimistic); for every pool >= 0 the four amounts sum to the caller's
\* pool and totalBudget is the caller's pool.
C11_PoolSplitByWeights ==
  budgetOut # <<>> =>
    poolSplitByWeights(budgetIn.currentBudget, budgetIn.scenario.name, budgetOut[1])

(***************************************************************************)
(* FundingPlanner: calculateFundingRequirements                            *)
(*                                                                         *)
(* Amounts are in lakh, as in the valuation model: the function is         *)
(* homogeneous in the currency unit (its constants are scaled with the     *)
(* amounts), and dilution, ROI and IRR are ratios.                         *)
(***************************************************************************)

realisticMonthlyBurn == Fin(260000, Lakh)

actualMonthlyBurnOf(firstYear) ==
  MathMax(realisticMonthlyBurn, NDiv(NAdd(firstYear.cogs, firstYear.opex), I(12)))

fundingPurpose(year) ==
  IF year = 1 THEN "Seed funding for 18-month runway"
  ELSE IF year = 2 THEN "Series A for growth acceleration" ELSE "Series B for scale"

monthsOfRunwayNeeded(year) == IF year = 1 THEN 18 ELSE 12

\* A funding event sized without the buffer.
fundingNeededWithoutBuffer(year, burn, balance, buffer) ==
  NSub(NMul(burn, I(monthsOfRunwayNeeded(year))), balance)

fundingNeededOf(year, burn, balance, buffer) ==
  NAdd(NSub(NMul(burn, I(monthsOfRunwayNeeded(year))), balance), buffer)

\* One pass of the forEach body: balance is runningCashBalance after the
\* year's net cash flow was added, runningCashBalance the value the pass
\* leaves behind.
fundingYearBooked(year, balance, fundingNeeded, buffer) ==
  LET booked == NLt(balance, buffer) /\ NGt(fundingNeeded, I(0)) IN
  [year |-> year, balance |-> balance, booked |-> booked,
   amount |-> IF booked THEN fundingNeeded ELSE I(0),
   runningCashBalance |-> IF booked THEN NAdd(balance, fundingNeeded) ELSE balance]

fundingYear(proj, year, runningCashBalance, burn, buffer) ==
  LET monthlyNetCashFlow == NSub(NDiv(proj.revenue, I(12)), burn)
      balance == NAdd(runningCashBalance, NMul(monthlyNetCashFlow, I(12)))
  IN  fundingYearBooked(year, balance, fundingNeededOf(year, burn, balance, buffer), buffer)

RECURSIVE fundingWalk(_, _, _, _, _)
fundingWalk(projections, year, runningCashBalance, burn, buffer) ==
  IF year > Len(projections) THEN <<>>
  ELSE LET pass == fundingYear(projections[year], year, runningCashBalance, burn, buffer)
       IN  <<pass>> \o fundingWalk(projections, year + 1, pass.runningCashBalance,
                                   burn, buffer)

RECURSIVE sumOfAmounts(_)
sumOfAmounts(entries) ==
  IF entries = <<>> THEN I(0)
  ELSE NAdd(entries[1].amount, sumOfAmounts(Tail(entries)))

RECURSIVE fundingByYearOf(_)
fundingByYearOf(walk) ==
  IF walk = <<>> THEN <<>>
  ELSE (IF walk[1].booked
        THEN <<[year |-> walk[1].year, amount |-> walk[1].amount,
                purpose |-> fundingPurpose(walk[1].year)]>>
        ELSE <<>>) \o fundingByYearOf(Tail(walk))

roiProjectionOf(finalCashBalance, totalFundingNeeded) ==
  IF NGt(totalFundingNeeded, I(0))
  THEN NMul(NDiv(NSub(finalCashBalance, totalFundingNeeded), totalFundingNeeded), I(100))
  ELSE I(0)

\* The payback loop: the first year in which the cumulative cash flow,
\* started at -totalFundingNeeded, is >= 0; 5 when there is none.
RECURSIVE paybackPeriodFrom(_, _, _, _)
paybackPeriodFrom(projections, i, cumulativeCashFlow, burn) ==
  IF i > Len(projections) THEN 5
  ELSE LET cumulative == NAdd(cumulativeCashFlow,
                              NMul(NSub(NDiv(projections[i].revenue, I(12)), burn), I(12)))
       IN  IF NGe(cumulative, I(0)) THEN i
           ELSE paybackPeriodFrom(projections, i + 1, cumulative, burn)

\* irr * 100.  Math.pow(totalReturn, 1/3) - 1 is irrational in general; it
\* is kept as the record [k |-> "cbrtMinusOne", of |-> totalReturn] unless
\* the bound of 2.0 applies, which is the case from totalReturn 27 on.
irrPercentOf(finalCashBalance, totalFundingNeeded) ==
  IF NGt(totalFundingNeeded, I(0)) /\ NGt(finalCashBalance, totalFundingNeeded)
  THEN LET totalReturn == NDiv(finalCashBalance, totalFundingNeeded)
       IN  IF NGe(totalReturn, I(27)) THEN I(200)
           ELSE [k |-> "cbrtMinusOne", of |-> totalReturn]
  ELSE I(-50)

\* Dilution measured against the pre-money valuation alone.
dilutionOfPreMoney(raise, valuation) == NMul(NDiv(raise, valuation), I(100))

dilutionOf(raise, valuation) == NMul(NDiv(raise, NAdd(valuation, raise)), I(100))

fundingRound(round, amount, timing, valuation) ==
  [round |-> round, amount |-> amount, timing |-> timing, valuation |-> valuation,
   dilution |-> dilutionOf(amount, valuation)]

seedAndSeriesA(totalFundingNeeded, seedAmount, currentValuation) ==
  <<fundingRound("Seed Round", seedAmount, "Year 1 Q1", currentValuation)>> \o
  (IF NGt(totalFundingNeeded, seedAmount)
   THEN <<fundingRound("Series A", NSub(totalFundingNeeded, seedAmount), "Year 2 Q1",
                       NMul(currentValuation, Fin(5, 2)))>>
   ELSE <<>>)

recommendedFundingRoundsOf(totalFundingNeeded, currentValuation) ==
  IF ~NGt(totalFundingNeeded, I(0)) THEN <<>>
  ELSE IF NLe(totalFundingNeeded, I(2000000 \div Lakh))
  THEN <<fundingRound("Seed Round", totalFundingNeeded, "Year 1 Q1", currentValuation)>>
  ELSE IF NLe(totalFundingNeeded, I(8000000 \div Lakh))
  THEN seedAndSeriesA(totalFundingNeeded,
                      MathMin(totalFundingNeeded, I(3000000 \div Lakh)), currentValuation)
  ELSE <<>>

RECURSIVE sumOfDilutions(_)
sumOfDilutions(rounds) ==
  IF rounds = <<>> THEN I(0)
  ELSE NAdd(rounds[1].dilution, sumOfDilutions(Tail(rounds)))

fundingRequirementsOf(scenario, walk, totalFundingNeeded, rounds, burn) ==
  [totalFundingNeeded |-> totalFundingNeeded,
   fundingByYear |-> fundingByYearOf(walk),
   dilution |-> sumOfDilutions(rounds),
   roiProjection |->
     roiProjectionOf(scenario.projections[Len(scenario.projections)].cashBalance,
                     totalFundingNeeded),
   paybackPeriod |->
     paybackPeriodFrom(scenario.projections, 1, NNeg(totalFundingNeeded), burn),
   irr |-> irrPercentOf(scenario.projections[Len(scenario.projections)].cashBalance,
                        totalFundingNeeded),
   recommendedFundingRounds |-> rounds]

fundingWalkOf(scenario, assumptions) ==
  fundingWalk(scenario.projections, 1, scenario.projections[1].cashBalance,
              actualMonthlyBurnOf(scenario.projections[1]),
              OrElse(assumptions.minimumCashBuffer, I(500000 \div Lakh)))

calculateFundingRequirementsOf(scenario, assumptions, walk) ==
  fundingRequirementsOf(scenario, walk, sumOfAmounts(walk),
    recommendedFundingRoundsOf(sumOfAmounts(walk),
                               OrElse(assumptions.currentValuation, I(2000000 \div Lakh))),
    actualMonthlyBurnOf(scenario.projections[1]))

calculateFundingRequirements(scenario, assumptions) ==
  calculateFundingRequirementsOf(scenario, assumptions, fundingWalkOf(scenario, assumptions))

(***************************************************************************)
(* calculateFundingRequirements on three-year scenarios in lakh            *)
(***************************************************************************)

FundingRevenueStep == 20
MaxFundingRevenueSteps == 2
MaxFundingCashSteps == 3

\* Year-1 costs below and above the floor of 2.6 lakh a month.
FundingCosts == {12, 48}

FundingScenario(name, r1, r2, r3, costs, cash, finalCash) ==
  [name |-> name,
   projections |->
     <<Year(1, r1, 0, r1, costs, r1 - costs, r1 - costs, cash),
       Year(2, r2, 0, r2, costs, r2 - costs, r2 - costs, cash),
       Year(3, r3, 0, r3, costs, r3 - costs, r3 - costs, finalCash)>>]

FundingScenarios ==
  {FundingScenario("Base Case", r1 * FundingRevenueStep, r2 * FundingRevenueStep,
                   r3 * FundingRevenueStep, costs, cash * 10, finalCash) :
     r1 \in 0..MaxFundingRevenueSteps, r2 \in 0..MaxFundingRevenueSteps,
     r3 \in 0..MaxFundingRevenueSteps, costs \in FundingCosts,
     cash \in 0..MaxFundingCashSteps, finalCash \in {0, 100}}

\* {} ; the Dashboard's { currentValuation: 5000000 } ; and a caller that
\* asks for a buffer of 10 lakh.
FundingAssumptions ==
  {[currentValuation |-> Undefined, minimumCashBuffer |-> Undefined],
   [currentValuation |-> I(5000000 \div Lakh), minimumCashBuffer |-> Undefined],
   [currentValuation |-> Undefined, minimumCashBuffer |-> I(10)]}

CalculateFundingRequirements ==
  /\ fundingOut = <<>>
  /\ fundingOut' =
       <<[walk |-> fundingWalkOf(fundingIn.scenario, fundingIn.assumptions),
          result |-> calculateFundingRequirements(fundingIn.scenario,
                                                  fundingIn.assumptions)]>>
  /\ UNCHANGED <<fundingIn, coreVars, budgetVars, sensitivityVars, llmVars, validationVars, uiVars>>

InitFunding ==
  /\ fundingIn \in [scenario : FundingScenarios, assumptions : FundingAssumptions]
  /\ fundingOut = <<>>
  /\ CoreIdle /\ BudgetIdle /\ SensitivityIdle /\ LlmIdle /\ ValidationIdle /\ UiIdle

NextFunding == CalculateFundingRequirements

SpecFunding == InitFunding /\ [][NextFunding]_vars

(***************************************************************************)
(* Properties of calculateFundingRequirements                              *)
(***************************************************************************)

FundingDone == fundingOut # <<>>
fundingBurn == actualMonthlyBurnOf(fundingIn.scenario.projections[1])
fundingBuffer == OrElse(fundingIn.assumptions.minimumCashBuffer, I(500000 \div Lakh))

\* The balance the walk holds before the year's pass.
balanceBefore(walk, y) ==
  IF y = 1 THEN fundingIn.scenario.projections[1].cashBalance
  ELSE walk[y - 1].runningCashBalance

yearWalkedAsClaimed(walk, y) ==
  LET afterCashFlow ==
        NAdd(balanceBefore(walk, y),
             NSub(fundingIn.scenario.projections[y].revenue, NMul(fundingBurn, I(12))))
  IN  /\ NEq(walk[y].balance, afterCashFlow)
      /\ walk[y].booked <=> NLt(afterCashFlow, fundingBuffer)
      /\ walk[y].booked =>
            NEq(walk[y].runningCashBalance,
                NAdd(NMul(fundingBurn, I(IF y = 1 THEN 18 ELSE 12)), fundingBuffer))
      /\ ~walk[y].booked => NEq(walk[y].runningCashBalance, afterCashFlow)
      /\ NGe(walk[y].runningCashBalance, fundingBuffer)

bookedYears(walk) == {y \in 1..Len(walk) : walk[y].booked}

\* C12: calculateFundingRequirements walks the years in order with a running
\* balance; in exactly the years whose balance after the year's net cash flow
\* is below the minimum buffer it books one funding event that brings the
\* balance to monthlyBurn * 18 (year 1) or * 12 (later years) plus the buffer,
\* so the balance after each year's pass is >= the buffer; fundingByYear
\* holds the booked events in year order and totalFundingNeeded is their sum.
C12_FundingWalk ==
  FundingDone =>
    LET walk == fundingOut[1].walk
        result == fundingOut[1].result
    IN  /\ Len(walk) = Len(fundingIn.scenario.projections)
        /\ \A y \in 1..Len(walk) : yearWalkedAsClaimed(walk, y)
        /\ Len(result.fundingByYear) = Cardinality(bookedYears(walk))
        /\ \A e \in 1..Len(result.fundingByYear) :
             /\ result.fundingByYear[e].year \in bookedYears(walk)
             /\ NEq(result.fundingByYear[e].amount,
                    walk[result.fundingByYear[e].year].amount)
             /\ e > 1 => result.fundingByYear[e - 1].year < result.fundingByYear[e].year
        /\ NEq(result.totalFundingNeeded, sumOfAmounts(result.fundingByYear))

\* An event of 18 months in year 1, none in year 2 and one of 12 months in
\* year 3.
C12_Witness ==
  /\ FundingDone
  /\ bookedYears(fundingOut[1].walk) = {1, 3}
  /\ Len(fundingOut[1].result.fundingByYear) = 2

roundNames(rounds) == [i \in 1..Len(rounds) |-> rounds[i].round]

raiseOverPostMoney(round) ==
  NMul(NDiv(round.amount, NAdd(round.valuation, round.amount)), I(100))

\* C13: when 0 < totalFundingNeeded <= 2,000,000 the rounds are a single Seed
\* round, when 2,000,000 < totalFundingNeeded <= 8,000,000 a Seed round
\* followed by a Series A round; each round's dilution is
\* raise / (pre-money valuation + raise) as a percentage and the reported
\* dilution is the sum over the rounds.  (No walk yields a total in
\* (0, 3,120,000]: every event exceeds twelve months of a burn of at least
\* 260,000.)
C13_Tranches ==
  FundingDone =>
    LET result == fundingOut[1].result
        total == result.totalFundingNeeded
        rounds == result.recommendedFundingRounds
    IN  /\ (NGt(total, I(0)) /\ NLe(total, I(2000000 \div Lakh)))
              => roundNames(rounds) = <<"Seed Round">>
        /\ (NGt(total, I(2000000 \div Lakh)) /\ NLe(total, I(8000000 \div Lakh)))
              => roundNames(rounds) = <<"Seed Round", "Series A">>
        /\ \A i \in 1..Len(rounds) : NEq(rounds[i].dilution, raiseOverPostMoney(rounds[i]))
        /\ NEq(result.dilution, sumOfDilutions(rounds))

\* A need between 2,000,000 and 8,000,000 split into a Seed round of
\* 3,000,000 and a Series A round at 2.5 times the Dashboard's valuation.
C13_Witness ==
  /\ FundingDone
  /\ fundingIn.assumptions.currentValuation = I(5000000 \div Lakh)
  /\ Len(fundingOut[1].result.recommendedFundingRounds) = 2
  /\ fundingOut[1].result.recommendedFundingRounds[1].amount = I(3000000 \div Lakh)
  /\ fundingOut[1].result.recommendedFundingRounds[2].valuation = Fin(250, 2)
  /\ NGt(fundingOut[1].result.dilution, I(0))

(***************************************************************************)
(* The LLM-backed operations: retryWithDelay, fetchIndustryBenchmarks,     *)
(* generateFinancialModel, analyzeRatios and calculateRiskScoring          *)
(*                                                                         *)
(* One invocation of the request either fails with an error or returns a   *)
(* completion whose content is one of a few kinds of text.                 *)
(***************************************************************************)

\* error.status === 429 ; error.code === 'rate_limit_exceeded' ; any other
\* failure of the request (network, authentication, server error).
ApiErrors == {"status 429", "code rate_limit_exceeded", "network error"}

\* No content ; text that is no JSON ; the JSON object {} ; and the JSON
\* documents the prompts ask for or the code accepts in their place.
ApiContents ==
  {"empty", "prose", "empty object", "scenarios key", "scenario array",
   "single scenario", "risk scores"}

ApiResponses == ApiErrors \cup ApiContents

isRateLimit(error) == error \in {"status 429", "code rate_limit_exceeded"}

\* A variant that waits the same delay again.
sameDelay(ms) == ms

nextDelay(ms) == ms * 2

\* A variant that retries whatever the error is.
retriesAgainOnAnyError(retriesLeft, error) == retriesLeft > 0

\* retryWithDelay's catch: wait and call again, or rethrow.
retriesAgain(retriesLeft, error) == retriesLeft > 0 /\ isRateLimit(error)

LlmOperations ==
  {"fetchIndustryBenchmarks", "generateFinancialModel", "analyzeRatios",
   "calculateRiskScoring"}

\* calculateRiskScoring awaits the request itself, the other three wrap it
\* in retryWithDelay.
usesRetryWithDelay(name) == name # "calculateRiskScoring"

\* A settled promise.  The value is a record: [text |-> ...] for a string,
\* [scenarios |-> ...] for a ScenarioData[] built here, [content |-> ...] for
\* what the completion held, [message |-> ...] for an Error.
resolved(value) == [settled |-> "resolved", value |-> value]
rejected(message) == [settled |-> "rejected", value |-> [message |-> message]]

(* fetchIndustryBenchmarks *)

fetchIndustryBenchmarksOf(industry, response) ==
  IF response \in ApiErrors
  THEN resolved([industry |-> industry, avgGrowthRate |-> "Data unavailable",
                 avgEbitdaMargin |-> "Data unavailable",
                 sources |-> <<[title |-> "Fallback Data", uri |-> "#"]>>])
  ELSE resolved([industry |-> industry, avgGrowthRate |-> "See analysis",
                 avgEbitdaMargin |-> "See analysis",
                 sources |-> <<[title |-> "AI Model Knowledge Base", uri |-> "#"]>>])

(* analyzeRatios *)

analyzeRatiosOf(response) ==
  IF response \in ApiErrors
  THEN resolved([text |->
         "Analysis temporarily unavailable due to rate limits. Please try again in a moment."])
  ELSE IF response = "empty" THEN resolved([text |-> "Analysis unavailable."])
  ELSE resolved([content |-> response])

(* calculateRiskScoring *)

\* A catch block that lets the error through.
riskScoringRethrown(cause) == rejected(cause)

riskScoringUnavailable(cause) ==
  resolved([marketRisk |-> 5, techRisk |-> 5, cashRisk |-> 5, competitionRisk |-> 5,
            overallRisk |-> 5, riskLevel |-> "Medium",
            recommendations |-> <<"Risk analysis temporarily unavailable">>])

calculateRiskScoringOf(response) ==
  IF response \in ApiErrors \/ response = "prose" THEN riskScoringUnavailable(response)
  ELSE IF response = "risk scores" THEN resolved([content |-> response])
  ELSE resolved([marketRisk |-> 5, techRisk |-> 5, cashRisk |-> 5, competitionRisk |-> 5,
                 overallRisk |-> 5, riskLevel |-> "Medium",
                 recommendations |-> <<"Analysis unavailable">>])

(* generateFinancialModel *)

\* The factors of the fallback scenarios: revenue, cogs and grossProfit as
\* multiples of baseRevenue, opex as a multiple of baseExpenses (year 1 of
\* the base and the pessimistic case takes baseExpenses as it is).
FallbackFactors(revenue, cogs, grossProfit, opex, opexRounded) ==
  [revenue |-> revenue, cogs |-> cogs, grossProfit |-> grossProfit, opex |-> opex,
   opexRounded |-> opexRounded]

FallbackPlans ==
  <<[name |-> "Base Case",
     description |-> "Conservative growth scenario based on current performance",
     assumptions |-> <<"10% annual revenue growth", "Stable operating margins",
                       "Current expense structure maintained">>,
     years |-> <<FallbackFactors(Fin(11, 10), Fin(3, 100), Fin(107, 100), I(1), FALSE),
                 FallbackFactors(Fin(121, 100), Fin(33, 1000), Fin(1177, 1000),
                                 Fin(11, 10), TRUE),
                 FallbackFactors(Fin(1331, 1000), Fin(36, 1000), Fin(1295, 1000),
                                 Fin(121, 100), TRUE)>>],
    [name |-> "Optimistic Case",
     description |-> "Strong growth scenario with market expansion",
     assumptions |-> <<"25% annual revenue growth", "Improved operational efficiency",
                       "Market share gains">>,
     years |-> <<FallbackFactors(Fin(125, 100), Fin(25, 1000), Fin(1225, 1000),
                                 Fin(11, 10), TRUE),
                 FallbackFactors(Fin(15625, 10000), Fin(31, 1000), Fin(1531, 1000),
                                 Fin(12, 10), TRUE),
                 FallbackFactors(Fin(1953, 1000), Fin(39, 1000), Fin(1914, 1000),
                                 Fin(13, 10), TRUE)>>],
    [name |-> "Pessimistic Case",
     description |-> "Economic downturn with reduced demand",
     assumptions |-> <<"Revenue decline due to market conditions",
                       "Increased operational costs", "Cash flow challenges">>,
     years |-> <<FallbackFactors(Fin(9, 10), Fin(4, 100), Fin(86, 100), I(1), FALSE),
                 FallbackFactors(Fin(855, 1000), Fin(43, 1000), Fin(812, 1000),
                                 Fin(105, 100), TRUE),
                 FallbackFactors(Fin(85, 100), Fin(45, 1000), Fin(805, 1000),
                                 Fin(11, 10), TRUE)>>]>>

\* baseRevenue * grossProfit factor - baseExpenses * opex factor
fallbackEbitda(f, baseRevenue, baseExpenses) ==
  NSub(NMul(baseRevenue, f.grossProfit), NMul(baseExpenses, f.opex))

\* baseCash + the sum over the years up to y of 0.8 times that difference
RECURSIVE fallbackCash(_, _, _, _, _)
fallbackCash(years, y, baseRevenue, baseExpenses, baseCash) ==
  IF y = 0 THEN baseCash
  ELSE NAdd(fallbackCash(years, y - 1, baseRevenue, baseExpenses, baseCash),
            NMul(fallbackEbitda(years[y], baseRevenue, baseExpenses), Fin(8, 10)))

fallbackYear(years, y, baseRevenue, baseExpenses, baseCash) ==
  [year |-> y,
   revenue |-> MathRound(NMul(baseRevenue, years[y].revenue)),
   cogs |-> MathRound(NMul(baseRevenue, years[y].cogs)),
   grossProfit |-> MathRound(NMul(baseRevenue, years[y].grossProfit)),
   opex |-> IF years[y].opexRounded THEN MathRound(NMul(baseExpenses, years[y].opex))
            ELSE baseExpenses,
   ebitda |-> MathRound(fallbackEbitda(years[y], baseRevenue, baseExpenses)),
   netIncome |->
     MathRound(NMul(fallbackEbitda(years[y], baseRevenue, baseExpenses), Fin(8, 10))),
   cashBalance |-> MathRound(fallbackCash(years, y, baseRevenue, baseExpenses, baseCash))]

fallbackScenario(plan, baseRevenue, baseExpenses, baseCash) ==
  [name |-> plan.name, description |-> plan.description, assumptions |-> plan.assumptions,
   projections |->
     [y \in 1..3 |-> fallbackYear(plan.years, y, baseRevenue, baseExpenses, baseCash)]]

fallbackScenarios(input) ==
  [i \in 1..3 |->
     fallbackScenario(FallbackPlans[i],
                      OrElse(input.currentRevenue, I(50000)),
                      OrElse(NMul(input.currentExpenses, I(12)), I(30000)),
                      OrElse(input.currentCash, I(200000)))]

generateFinancialModelOf(input, response) ==
  IF response \in ApiErrors THEN rejected("Failed to generate financial models")
  ELSE IF response = "empty" THEN resolved([scenarios |-> <<>>])
  ELSE IF response = "prose" THEN resolved([scenarios |-> fallbackScenarios(input)])
  ELSE IF response \in {"scenarios key", "scenario array", "single scenario"}
  THEN resolved([content |-> response])
  ELSE rejected("Failed to generate financial models")

\* How the operation's promise settles once the request has returned the
\* response, or has failed for good with it.
settledWith(op, response) ==
  CASE op.name = "fetchIndustryBenchmarks" ->
         fetchIndustryBenchmarksOf(op.input.industry, response)
    [] op.name = "generateFinancialModel" -> generateFinancialModelOf(op.input, response)
    [] op.name = "analyzeRatios" -> analyzeRatiosOf(response)
    [] op.name = "calculateRiskScoring" -> calculateRiskScoringOf(response)

(***************************************************************************)
(* One LLM-backed operation from its call to the settling of its promise   *)
(***************************************************************************)

\* An empty form and the example input.
LlmInputs ==
  {[currentRevenue |-> I(0), currentExpenses |-> I(0), currentCash |-> I(0),
    industry |-> "Other"],
   [currentRevenue |-> I(500000), currentExpenses |-> I(35000), currentCash |-> I(120000),
    industry |-> "SaaS"]}

\* The operation is called and makes ready to invoke the request: through
\* retryWithDelay(fn) with retries = 3 and delay = 1000, or directly.
StartOperation(name, input) ==
  /\ pc = "idle"
  /\ llmOp' = [name |-> name, input |-> input]
  /\ retries' = IF usesRetryWithDelay(name) THEN 3 ELSE 0
  /\ delay' = IF usesRetryWithDelay(name) THEN 1000 ELSE 0
  /\ pc' = "invoke"
  /\ UNCHANGED <<invoked, waited, llmOut>>
  /\ UNCHANGED <<coreVars, budgetVars, fundingVars, sensitivityVars, validationVars, uiVars>>

\* await fn(): the request is invoked and returns or fails.  A failure that
\* retryWithDelay retries leads to the timer; every other outcome runs the
\* rest of the operation, which settles its promise.  response is what the
\* last invocation came back with, thrown the error that left
\* retryWithDelay, if any.
InvokeRequest(response) ==
  /\ pc = "invoke"
  /\ invoked' = invoked + 1
  /\ IF response \in ApiErrors /\ usesRetryWithDelay(llmOp.name)
        /\ retriesAgain(retries, response)
     THEN pc' = "wait" /\ UNCHANGED llmOut
     ELSE /\ pc' = "settled"
          /\ llmOut' =
               <<[response |-> response,
                  thrown |-> IF response \in ApiErrors THEN response ELSE "none",
                  outcome |-> settledWith(llmOp, response)]>>
  /\ UNCHANGED <<llmOp, retries, delay, waited>>
  /\ UNCHANGED <<coreVars, budgetVars, fundingVars, sensitivityVars, validationVars, uiVars>>

\* The setTimeout of delay milliseconds fires and retryWithDelay calls
\* itself with retries - 1 and delay * 2.
WaitDelay ==
  /\ pc = "wait"
  /\ waited' = Append(waited, delay)
  /\ retries' = retries - 1
  /\ delay' = nextDelay(delay)
  /\ pc' = "invoke"
  /\ UNCHANGED <<llmOp, invoked, llmOut>>
  /\ UNCHANGED <<coreVars, budgetVars, fundingVars, sensitivityVars, validationVars, uiVars>>

InitLlm ==
  /\ LlmIdle
  /\ CoreIdle /\ BudgetIdle /\ FundingIdle /\ SensitivityIdle /\ ValidationIdle /\ UiIdle

NextLlm ==
  \/ \E name \in LlmOperations, input \in LlmInputs : StartOperation(name, input)
  \/ \E response \in ApiResponses : InvokeRequest(response)
  \/ WaitDelay

SpecLlm == InitLlm /\ [][NextLlm]_vars

\* The request's promise settles and the timer fires: a pending await and a
\* pending setTimeout are resumed by the event loop.
SpecLlmFair ==
  /\ InitLlm /\ [][NextLlm]_vars
  /\ WF_vars(\E response \in ApiResponses : InvokeRequest(response))
  /\ WF_vars(WaitDelay)

(***************************************************************************)
(* Properties of retryWithDelay and of the LLM-backed operations           *)
(***************************************************************************)

ThroughRetry == llmOp # NoInput /\ usesRetryWithDelay(llmOp.name)

\* The waits so far are 1000 ms, then the double of the one before.
waitsDoubleFromOneSecond ==
  \A i \in 1..Len(waited) : waited[i] = IF i = 1 THEN 1000 ELSE 2 * waited[i - 1]

\* An invocation whose failure ends the call leaves retryWithDelay as the
\* error that is thrown.
lastErrorRethrown ==
  \A error \in ApiErrors :
    (InvokeRequest(error) /\ pc' = "settled") => llmOut'[1].thrown = error

\* C14 as stated: the request is invoked at most 3 times per call of
\* retryWithDelay, the waits are 1 second and then the double of the one
\* before.
C14_AtMostThreeInvocations ==
  ThroughRetry => (invoked <= 3 /\ waitsDoubleFromOneSecond)

\* C14, with the number of invocations the code makes: per call of
\* retryWithDelay the request is invoked at most 4 times (once, and once more
\* after each of at most 3 waits), the waits are 1, 2 and 4 seconds, the error
\* of the invocation that fails last is rethrown, and every call terminates.
C14_BoundedRetry ==
  /\ [](ThroughRetry =>
          /\ invoked <= 4 /\ Len(waited) <= 3 /\ invoked <= Len(waited) + 1
          /\ waitsDoubleFromOneSecond)
  /\ [][ThroughRetry => lastErrorRethrown]_vars
  /\ (pc = "invoke") ~> (pc = "settled")

\* Three rate-limit errors waited out and a fourth one rethrown.
C14_Witness ==
  /\ ThroughRetry /\ pc = "settled" /\ invoked = 4
  /\ waited = <<1000, 2000, 4000>>
  /\ llmOut[1].thrown = "status 429"

Settled == pc = "settled"

\* The outcomes C15 lists as failures, for the operation at hand: an
\* error of the request, no content, and for the two operations that parse
\* JSON a content that is no JSON or lacks the expected fields.
FailureResponses(name) ==
  ApiErrors \cup {"empty"} \cup
  (IF name = "generateFinancialModel" THEN {"prose", "empty object", "risk scores"}
   ELSE IF name = "calculateRiskScoring"
   THEN {"prose", "empty object", "scenarios key", "scenario array", "single scenario"}
   ELSE {})

isFinancialYear(p) ==
  /\ p.year \in 1..3
  /\ \A f \in {"revenue", "cogs", "grossProfit", "opex", "ebitda", "netIncome",
               "cashBalance"} : IsFin(p[f])

\* Three named scenarios of three years each, every figure a number.
fullyFormedScenarios(list) ==
  /\ Len(list) = 3
  /\ <<list[1].name, list[2].name, list[3].name>> =
       <<"Base Case", "Optimistic Case", "Pessimistic Case">>
  /\ \A i \in 1..3 :
       /\ Len(list[i].projections) = 3
       /\ \A y \in 1..3 :
            isFinancialYear(list[i].projections[y]) /\ list[i].projections[y].year = y

fullyFormedRisk(v) ==
  /\ \A f \in {"marketRisk", "techRisk", "cashRisk", "competitionRisk", "overallRisk"} :
       v[f] = 5
  /\ v.riskLevel = "Medium" /\ Len(v.recommendations) = 1

fullyFormedBenchmarks(v) ==
  /\ v.industry = llmOp.input.industry
  /\ v.avgGrowthRate = "Data unavailable" /\ v.avgEbitdaMargin = "Data unavailable"
  /\ Len(v.sources) = 1

isBlank(s) == \A i \in 1..Len(s) : SubSeq(s, i, i) = " "

\* !x || isNaN(Number(x)) || Number(x) <= 0
notPositive(x) == Falsy(x) \/ IsNaN(x) \/ NLe(x, I(0))

\* !currentCash || isNaN(currentCash) || currentCash < 0
invalidCash(x) == Falsy(x) \/ IsNaN(x) \/ NLt(x, I(0))

NoCalls == {}

\* The message of the alert handleGenerate raises before it returns, or
\* "none" when the inputs pass.
formRejection(in) ==
  IF isBlank(in.companyName) THEN "Please enter your company name"
  ELSE IF isBlank(in.businessContext) THEN "Please enter your business context"
  ELSE IF NLe(in.currentRevenue, I(0)) \/ NLe(in.currentExpenses, I(0))
          \/ NLt(in.currentCash, I(0))
  THEN "Please enter valid financial numbers"
  ELSE "none"

\* handleGenerate: after the checks it awaits fetchIndustryBenchmarks, then
\* generateFinancialModel, and hands the scenarios on unless that rejected.
handleGenerate(in, generation) ==
  IF formRejection(in) # "none"
  THEN [entry |-> "handleGenerate", accepted |-> FALSE, message |-> formRejection(in),
        calls |-> NoCalls]
  ELSE [entry |-> "handleGenerate", accepted |-> TRUE,
        message |-> IF generation = "rejected"
                    THEN "Failed to generate financial scenarios. Please check the console for details."
                    ELSE "none",
        calls |-> {"fetchIndustryBenchmarks", "generateFinancialModel"} \cup
                  (IF generation = "rejected" THEN {} ELSE {"onScenariosGenerated"})]

\* The message of the Error generatePDFReport throws on its inputs, or "none".
reportRejection(userInputs, currentCash) ==
  IF notPositive(OrElse(userInputs.currentRevenue, userInputs.annualRevenue))
  THEN "Invalid annual revenue input"
  ELSE IF notPositive(OrElse(userInputs.currentExpenses, userInputs.monthlyExpenses))
  THEN "Invalid monthly expenses input"
  ELSE IF invalidCash(currentCash) THEN "Invalid cash input."
  ELSE "none"

\* generatePDFReport up to the metrics it computes for the report.
generatePDFReport(scenarioList, userInputs, currentCash) ==
  IF reportRejection(userInputs, currentCash) # "none"
  THEN [entry |-> "generatePDFReport", accepted |-> FALSE,
        message |-> reportRejection(userInputs, currentCash), calls |-> NoCalls]
  ELSE IF scenarioList = <<>> \/ scenarioList[1].projections = <<>>
  THEN [entry |-> "generatePDFReport", accepted |-> TRUE,
        message |-> "Invalid scenario data.", calls |-> NoCalls]
  ELSE [entry |-> "generatePDFReport", accepted |-> TRUE, message |-> "none",
        calls |-> {"calculateFinancialRatios", "calculateValuation", "calculateBreakEven",
                   "analyzeBudget", "performSensitivityAnalysis"}]

(***************************************************************************)
(* The two entry points on small inputs                                    *)
(***************************************************************************)

MaxFormAmount == 2

FormNames == {"", " ", "Acme"}
FormContexts == {"", "B2B SaaS"}
FormAmounts == {I(a) : a \in -1..MaxFormAmount}

\* The UserInput of the form; the Dashboard hands the same record on to
\* generatePDFReport, without annualRevenue and monthlyExpenses.
FormInputs ==
  [companyName : FormNames, businessContext : FormContexts,
   currentRevenue : FormAmounts, currentExpenses : FormAmounts,
   currentCash : FormAmounts, annualRevenue : {Undefined},
   monthlyExpenses : {Undefined}]

ReportScenarios ==
  {<<>>, <<[name |-> "Base Case", projections |-> <<Year(1, 12, 6, 6, 6, 0, 0, 0)>>]>>}

HandleGenerate(generation) ==
  /\ validationOut = <<>>
  /\ validationOut' = <<handleGenerate(validationIn, generation)>>
  /\ UNCHANGED <<validationIn, coreVars, budgetVars, fundingVars, sensitivityVars, llmVars,
               uiVars>>

GeneratePDFReport(scenarioList) ==
  /\ validationOut = <<>>
  /\ validationOut' =
       <<generatePDFReport(scenarioList, validationIn, validationIn.currentCash)>>
  /\ UNCHANGED <<validationIn, coreVars, budgetVars, fundingVars, sensitivityVars, llmVars,
               uiVars>>

InitValidation ==
  /\ validationIn \in FormInputs /\ validationOut = <<>>
  /\ CoreIdle /\ BudgetIdle /\ FundingIdle /\ SensitivityIdle /\ LlmIdle /\ UiIdle

NextValidation ==
  \/ \E generation \in {"resolved", "rejected"} : HandleGenerate(generation)
  \/ \E scenarioList \in ReportScenarios : GeneratePDFReport(scenarioList)

SpecValidation == InitValidation /\ [][NextValidation]_vars

(***************************************************************************)
(* Properties of the input validation                                      *)
(***************************************************************************)

Validated == validationOut # <<>>

namedInput == ~isBlank(validationIn.companyName) /\ ~isBlank(validationIn.businessContext)

\* revenue <= 0, monthly expenses <= 0 or cash < 0
invalidFigures ==
  \/ NLe(validationIn.currentRevenue, I(0))
  \/ NLe(validationIn.currentExpenses, I(0))
  \/ NLt(validationIn.currentCash, I(0))

\* C16: among inputs with a company name and a business context, both
\* handleGenerate and generatePDFReport reject exactly the inputs with
\* revenue <= 0, monthly expenses <= 0 or cash < 0, so cash == 0 with positive
\* revenue and expenses is accepted; a rejected input triggers no benchmark
\* fetch, no model generation and no metric computation.
C16_RejectsExactlyInvalidFigures ==
  (Validated /\ namedInput) =>
    /\ validationOut[1].accepted <=> ~invalidFigures
    /\ ~validationOut[1].accepted => validationOut[1].calls = {}

(***************************************************************************)
(* Properties of year 1 of the generated scenarios                         *)
(***************************************************************************)

\* C17: for the same caller input, year-1 revenue and year-1 cashBalance are
\* identical in the base, the optimistic and the pessimistic scenario
\* returned by generateScenariosFromInputs.
C17_YearOneSameAcrossPolicies ==
  Generated =>
    \A i, j \in 1..3 :
      /\ NEq(scenarios[i].projections[1].revenue, scenarios[j].projections[1].revenue)
      /\ NEq(scenarios[i].projections[1].cashBalance,
             scenarios[j].projections[1].cashBalance)

baseYearOne == scenarios[1].projections[1]
annualExpenses == NMul(inputs.monthlyExpenses, I(12))

\* C18: in the base scenario cogs1 + opex1 is 12 * monthlyExpenses within a
\* rounding tolerance of 1, hence ebitda1 is annualRevenue - 12 *
\* monthlyExpenses (rounded to a whole amount), for every industry and
\* country; the input {revenue 500000, monthlyExpenses 35000, cash 120000}
\* with SaaS / India gives ebitda1 80000, netIncome1 56000, cashBalance1 176000.
C18_BaseYearOneReproducesExpenses ==
  Generated =>
    /\ NLe(MathAbs(NSub(NAdd(baseYearOne.cogs, baseYearOne.opex), annualExpenses)), I(1))
    /\ NEq(baseYearOne.ebitda, MathRound(NSub(inputs.annualRevenue, annualExpenses)))
    /\ inputs = ExampleInput =>
         /\ baseYearOne.ebitda = I(80000)
         /\ baseYearOne.netIncome = I(56000)
         /\ baseYearOne.cashBalance = I(176000)

\* The example input, generated.
C18_Witness ==
  /\ Generated /\ inputs = ExampleInput
  /\ NAdd(baseYearOne.cogs, baseYearOne.opex) = I(420000)
  /\ baseYearOne.ebitda = I(80000)

(***************************************************************************)
(* Properties of the break-even probability                                *)
(***************************************************************************)

\* monthsToBreakEven as calculateBreakEven compares it, before rounding.
monthsCompared ==
  monthsToBreakEvenOf(breakEvenIn.scenario.projections[1],
                      breakEvenIn.scenario.projections[2],
                      breakEvenOut[1].breakEvenRevenue, breakEvenOut[1].runway)

\* C19: for a scenario not yet at break-even, calculateBreakEven returns
\* probability 80 when monthsToBreakEven <= runway months and the runway is at
\* least 18 months, 60 when monthsToBreakEven <= runway months and the runway
\* is shorter than 18 months, and 30 when monthsToBreakEven exceeds the runway
\* months.
C19_ProbabilityBuckets ==
  (breakEvenOut # <<>> /\ ~atBreakEven(breakEvenIn.scenario.projections[1])) =>
    LET months == breakEvenOut[1].runway.months IN
    breakEvenOut[1].probability =
      IF NLe(monthsCompared, months) /\ NGe(months, I(18)) THEN 80
      ELSE IF NLe(monthsCompared, months) THEN 60
      ELSE 30

(***************************************************************************)
(* SensitivityAnalyzer: performSensitivityAnalysis                         *)
(***************************************************************************)

\* An impact that divides by |baseEbitda| whatever it is.
impactUnguarded(change, baseEbitda, fallback) ==
  NMul(NDiv(change, MathAbs(baseEbitda)), I(100))

\* baseEbitda !== 0 ? (change / Math.abs(baseEbitda)) * 100 : fallback
impactOrFallback(change, baseEbitda, fallback) ==
  IF ~NEq(baseEbitda, I(0)) THEN NMul(NDiv(change, MathAbs(baseEbitda)), I(100))
  ELSE fallback

\* growthChange in percent; 60% of the revenue change flows to EBITDA.
calculateRevenueImpact(baseRevenue, baseEbitda, growthChange) ==
  impactOrFallback(NMul(NMul(baseRevenue, Pct(growthChange)), Pct(60)), baseEbitda,
                   I(growthChange))

\* cacChange in percent (the code passes 0.10 for 10).
calculateCACImpact(baseEbitda, baseRevenue, cacChange) ==
  impactOrFallback(NNeg(NMul(NMul(baseRevenue, Pct(40)), Pct(cacChange))), baseEbitda,
                   I(-cacChange))

\* marginChange in percent (the code passes 0.03 for 3).
calculateMarginImpact(baseEbitda, baseRevenue, marginChange) ==
  impactOrFallback(NMul(baseRevenue, Pct(marginChange)), baseEbitda, I(marginChange))

variation(change, value, impact) == [change |-> change, value |-> value, impact |-> impact]

\* Math.round((baseOpex * share / baseRevenue) * 100), share in percent
cacShare(baseOpex, baseRevenue, share) ==
  MathRound(NMul(NDiv(NMul(baseOpex, Pct(share)), baseRevenue), I(100)))

grossMarginPercent(baseGrossProfit, baseRevenue) ==
  MathRound(NMul(NDiv(baseGrossProfit, baseRevenue), I(100)))

revenueGrowthTest(baseRevenue, baseEbitda) ==
  [parameter |-> "Revenue Growth Rate", baseValue |-> I(10),
   variations |->
     <<variation("5% growth (vs 10% base)", I(5),
                 calculateRevenueImpact(baseRevenue, baseEbitda, -5)),
       variation("8% growth (vs 10% base)", I(8),
                 calculateRevenueImpact(baseRevenue, baseEbitda, -2)),
       variation("12% growth (vs 10% base)", I(12),
                 calculateRevenueImpact(baseRevenue, baseEbitda, 2)),
       variation("15% growth (vs 10% base)", I(15),
                 calculateRevenueImpact(baseRevenue, baseEbitda, 5))>>]

cacTest(baseRevenue, baseEbitda, baseOpex) ==
  [parameter |-> "Customer Acquisition Cost",
   baseValue |-> cacShare(baseOpex, baseRevenue, 40),
   variations |->
     <<variation("+10% CAC increase", cacShare(baseOpex, baseRevenue, 44),
                 calculateCACImpact(baseEbitda, baseRevenue, 10)),
       variation("+5% CAC increase", cacShare(baseOpex, baseRevenue, 42),
                 calculateCACImpact(baseEbitda, baseRevenue, 5)),
       variation("-5% CAC reduction", cacShare(baseOpex, baseRevenue, 38),
                 calculateCACImpact(baseEbitda, baseRevenue, -5)),
       variation("-10% CAC reduction", cacShare(baseOpex, baseRevenue, 36),
                 calculateCACImpact(baseEbitda, baseRevenue, -10))>>]

grossMarginTest(baseRevenue, baseEbitda, margin) ==
  [parameter |-> "Gross Margin", baseValue |-> margin,
   variations |->
     <<variation("-3% margin compression", NSub(margin, I(3)),
                 calculateMarginImpact(baseEbitda, baseRevenue, -3)),
       variation("-1% margin compression", NSub(margin, I(1)),
                 calculateMarginImpact(baseEbitda, baseRevenue, -1)),
       variation("+1% margin expansion", NAdd(margin, I(1)),
                 calculateMarginImpact(baseEbitda, baseRevenue, 1)),
       variation("+3% margin expansion", NAdd(margin, I(3)),
                 calculateMarginImpact(baseEbitda, baseRevenue, 3))>>]

sensitivityTests(baseProjection) ==
  <<revenueGrowthTest(baseProjection.revenue, baseProjection.ebitda),
    cacTest(baseProjection.revenue, baseProjection.ebitda, baseProjection.opex),
    grossMarginTest(baseProjection.revenue, baseProjection.ebitda,
                    grossMarginPercent(baseProjection.grossProfit, baseProjection.revenue))>>

performSensitivityAnalysis(baseScenario) == sensitivityTests(baseScenario.projections[1])

(***************************************************************************)
(* performSensitivityAnalysis on the active scenario                       *)
(***************************************************************************)

MaxSensitivityRevenue == 5
MaxSensitivityCogs == 3
MaxSensitivityOpex == 4

SensitivityNames == {"Base Case", "Optimistic Case", "Pessimistic Case"}

\* One year is all the analysis reads.  Revenue 0 and cogs above revenue
\* are among the scenarios an LLM response can hold.
SensitivityScenarios ==
  {[name |-> n,
    projections |-> <<Year(1, 100 * r, 100 * c, 100 * (r - c), 100 * o,
                           100 * (r - c - o), 100 * (r - c - o), 0)>>] :
     n \in SensitivityNames, r \in 0..MaxSensitivityRevenue,
     c \in 0..MaxSensitivityCogs, o \in 0..MaxSensitivityOpex}

PerformSensitivityAnalysis ==
  /\ sensitivityOut = <<>>
  /\ sensitivityOut' = <<performSensitivityAnalysis(sensitivityIn)>>
  /\ UNCHANGED <<sensitivityIn, coreVars, budgetVars, fundingVars, llmVars, validationVars, uiVars>>

InitSensitivity ==
  /\ sensitivityIn \in SensitivityScenarios /\ sensitivityOut = <<>>
  /\ CoreIdle /\ BudgetIdle /\ FundingIdle /\ LlmIdle /\ ValidationIdle /\ UiIdle

NextSensitivity == PerformSensitivityAnalysis

SpecSensitivity == InitSensitivity /\ [][NextSensitivity]_vars

(***************************************************************************)
(* Properties of performSensitivityAnalysis                                *)
(***************************************************************************)

Analyzed == sensitivityOut # <<>>

impactsOf(test) == [v \in 1..Len(test.variations) |-> test.variations[v].impact]

\* C20: performSensitivityAnalysis returns exactly three tests (Revenue
\* Growth Rate, Customer Acquisition Cost, Gross Margin) with exactly four
\* variations each, and for a scenario with year-1 EBITDA == 0 no impact comes
\* from a division by zero: the impacts are the raw percentage changes
\* -5, -2, 2, 5 for growth, -10, -5, 5, 10 for CAC and -3, -1, 1, 3 for margin.
C20_ThreeTestsAndZeroEbitda ==
  Analyzed =>
    LET tests == sensitivityOut[1] IN
    /\ Len(tests) = 3
    /\ <<tests[1].parameter, tests[2].parameter, tests[3].parameter>> =
         <<"Revenue Growth Rate", "Customer Acquisition Cost", "Gross Margin">>
    /\ \A t \in 1..3 : Len(tests[t].variations) = 4
    /\ NEq(sensitivityIn.projections[1].ebitda, I(0)) =>
         /\ impactsOf(tests[1]) = <<I(-5), I(-2), I(2), I(5)>>
         /\ impactsOf(tests[2]) = <<I(-10), I(-5), I(5), I(10)>>
         /\ impactsOf(tests[3]) = <<I(-3), I(-1), I(1), I(3)>>

\* An analysis of a scenario with revenue and costs that cancel out.
C20_Witness ==
  /\ Analyzed
  /\ sensitivityIn.projections[1].ebitda = I(0)
  /\ NGt(sensitivityIn.projections[1].revenue, I(0))
  /\ sensitivityOut[1][2].variations[1].impact = I(-10)

(***************************************************************************)
(* Properties of the adequacy assessment of analyzeBudget                  *)
(***************************************************************************)

budgetYearOne == budgetIn.scenario.projections[1]

\* The pool covers fewer than 12 months of the monthly net loss
\* |netIncome| / 12 of a year-1 net loss.
underTwelveMonthsOfLoss ==
  /\ NLt(budgetYearOne.netIncome, I(0))
  /\ NLt(budgetIn.currentBudget,
         NMul(I(12), NDiv(MathAbs(budgetYearOne.netIncome), I(12))))

\* C21: for every scenario with a year-1 net loss and a cash pool that covers
\* fewer than 12 months of that monthly net loss, analyzeBudget returns
\* isAdequate == false and riskLevel == High.
C21_ShortRunwayFlagged ==
  (budgetOut # <<>> /\ underTwelveMonthsOfLoss) =>
    /\ ~budgetOut[1].adequacy.isAdequate
    /\ budgetOut[1].adequacy.riskLevel = "High"

(***************************************************************************)
(* ratiosService.ts: calculateFinancialRatios; benchmarkService.ts:        *)
(* compareToBenchmarks; the metric block of generatePDFReport              *)
(***************************************************************************)

\* (Math.pow(latest / first, 1 / (years - 1)) - 1) * 100.  The root of a
\* rational is in general irrational, so the figure is kept as the quotient
\* under the root and the root's degree.
cagrPercent(latest, first, years) ==
  [k |-> "cagrPercent", of |-> NDiv(latest, first), root |-> years - 1]

calculateFinancialRatios(scenario) ==
  LET projections == scenario.projections
      latestYear == projections[Len(projections)]
      firstYear == projections[1]
      years == Len(projections)
  IN  [profitabilityRatios |->
         [grossMargin |-> NMul(NDiv(latestYear.grossProfit, latestYear.revenue), I(100)),
          ebitdaMargin |-> NMul(NDiv(latestYear.ebitda, latestYear.revenue), I(100)),
          netMargin |-> NMul(NDiv(latestYear.netIncome, latestYear.revenue), I(100)),
          roa |-> NMul(NDiv(latestYear.netIncome, latestYear.cashBalance), I(100))],
       growthRatios |->
         [revenueGrowth |->
            IF years > 1 THEN cagrPercent(latestYear.revenue, firstYear.revenue, years)
            ELSE I(0),
          ebitdaGrowth |->
            IF years > 1 /\ NGt(firstYear.ebitda, I(0))
            THEN cagrPercent(latestYear.ebitda, firstYear.ebitda, years) ELSE I(0),
          netIncomeGrowth |->
            IF years > 1 /\ NGt(firstYear.netIncome, I(0))
            THEN cagrPercent(latestYear.netIncome, firstYear.netIncome, years) ELSE I(0)],
       efficiencyRatios |->
         [assetTurnover |-> NDiv(latestYear.revenue, latestYear.cashBalance),
          cogsRatio |-> NMul(NDiv(latestYear.cogs, latestYear.revenue), I(100)),
          opexRatio |-> NMul(NDiv(latestYear.opex, latestYear.revenue), I(100))]]

calculatePercentile(value, benchmark, stdDev) ==
  LET zScore == NDiv(NSub(value, benchmark), stdDev)
      percentile == NAdd(I(50), NMul(zScore, I(20)))
  IN  MathMax(I(0), MathMin(I(100), percentile))

\* The benchmarks and the label of the company's stage, by year-1 revenue.
stageBenchmarks(revenueSize) ==
  IF NLt(revenueSize, I(200000))
  THEN [avgEbitdaMargin |-> I(-40), avgGrowthRate |-> I(100), stageLabel |-> "very early-stage"]
  ELSE IF NLt(revenueSize, I(1000000))
  THEN [avgEbitdaMargin |-> I(-25), avgGrowthRate |-> I(45), stageLabel |-> "early-stage"]
  ELSE IF NLt(revenueSize, I(10000000))
  THEN [avgEbitdaMargin |-> I(-10), avgGrowthRate |-> I(30), stageLabel |-> "growth-stage"]
  ELSE [avgEbitdaMargin |-> I(5), avgGrowthRate |-> I(20), stageLabel |-> "scale-stage"]

overallRankingOf(avgPercentile) ==
  IF NGe(avgPercentile, I(90)) THEN "Top 10%"
  ELSE IF NGe(avgPercentile, I(75)) THEN "Top 25%"
  ELSE IF NGe(avgPercentile, I(50)) THEN "Top 50%"
  ELSE "Below Average"

compareToBenchmarks(scenario) ==
  LET year1 == scenario.projections[1]
      year2 == scenario.projections[2]
      companyMargin == NMul(NDiv(year1.ebitda, year1.revenue), I(100))
      companyGrowth ==
        NMul(NDiv(NSub(year2.revenue, year1.revenue), year1.revenue), I(100))
      revenueSize == year1.revenue
      benchmarks == stageBenchmarks(revenueSize)
      marginStdDev == IF NLt(revenueSize, I(1000000)) THEN I(15) ELSE I(10)
      growthStdDev == IF NLt(revenueSize, I(1000000)) THEN I(30) ELSE I(20)
      marginPercentile ==
        calculatePercentile(companyMargin, benchmarks.avgEbitdaMargin, marginStdDev)
      growthPercentile ==
        calculatePercentile(companyGrowth, benchmarks.avgGrowthRate, growthStdDev)
      avgPercentile == NDiv(NAdd(marginPercentile, growthPercentile), I(2))
  IN  [companyMargin |-> NDiv(MathRound(NMul(companyMargin, I(10))), I(10)),
       industryAvgMargin |-> benchmarks.avgEbitdaMargin,
       marginPercentile |-> MathRound(marginPercentile),
       companyGrowth |-> NDiv(MathRound(NMul(companyGrowth, I(10))), I(10)),
       industryAvgGrowth |-> benchmarks.avgGrowthRate,
       growthPercentile |-> MathRound(growthPercentile),
       overallRanking |-> overallRankingOf(avgPercentile),
       insights |->
         <<[stage |-> benchmarks.stageLabel,
            healthy |-> NGt(companyMargin, benchmarks.avgEbitdaMargin)],
           [stage |-> benchmarks.stageLabel,
            healthy |-> NGt(companyGrowth, benchmarks.avgGrowthRate)]>>]

\* The scenario with every amount expressed in lakh, as the valuation
\* operators take it.
yearInLakh(y) ==
  [year |-> y.year, revenue |-> NDiv(y.revenue, I(Lakh)), cogs |-> NDiv(y.cogs, I(Lakh)),
   grossProfit |-> NDiv(y.grossProfit, I(Lakh)), opex |-> NDiv(y.opex, I(Lakh)),
   ebitda |-> NDiv(y.ebitda, I(Lakh)), netIncome |-> NDiv(y.netIncome, I(Lakh)),
   cashBalance |-> NDiv(y.cashBalance, I(Lakh))]

inLakh(scenario) ==
  [name |-> scenario.name,
   projections |-> [i \in 1..Len(scenario.projections) |-> yearInLakh(scenario.projections[i])]]

NoAssumptions ==
  [wacc |-> Undefined, terminalGrowthRate |-> Undefined,
   sharesOutstanding |-> Undefined, industryMultiples |-> <<>>]

DashboardPricing ==
  [pricePerUnit |-> I(100), currentCash |-> Undefined,
   availableCash |-> Undefined, monthlyExpenses |-> Undefined]

\* The metrics generatePDFReport computes from the base scenario.
reportMetrics(baseScenario, currentCash) ==
  [ratios |-> calculateFinancialRatios(baseScenario),
   valuation |-> calculateValuation(inLakh(baseScenario), NoAssumptions),
   breakEven |-> calculateBreakEven(baseScenario, DashboardPricing),
   budgetAnalysis |-> analyzeBudget(baseScenario, currentCash)]

---------------------------------------------------------------------------
(* The calculation components on three-year scenarios that satisfy the     *)
(* FinancialYear invariants, with positive revenue and cash >= 0           *)

MaxRatioRevenue == 3
MaxRatioOpex == 2
MaxRatioCash == 1

RatioScenario(rev, cogs, opex, cash, rev2) ==
  [name |-> "Base Case",
   projections |->
     <<Year(1, rev, cogs, rev - cogs, opex, rev - cogs - opex, rev - cogs - opex, cash),
       Year(2, rev2, cogs, rev2 - cogs, opex, rev2 - cogs - opex, rev2 - cogs - opex, cash),
       Year(3, rev2, cogs, rev2 - cogs, opex, rev2 - cogs - opex, rev2 - cogs - opex, cash)>>]

\* Amounts in whole lakh: revenue 1 to MaxRatioRevenue lakh, cogs from 0 up
\* to the whole revenue, cash from 0.
RatioScenarios ==
  {RatioScenario(r * Lakh, c * Lakh, o * Lakh, k * Lakh, (r + g) * Lakh) :
     r \in 1..MaxRatioRevenue, c \in 0..MaxRatioRevenue, o \in 0..MaxRatioOpex,
     k \in 0..MaxRatioCash, g \in 0..1}

CalculateReportMetrics ==
  /\ ratiosOut = <<>>
  /\ ratiosOut' = <<reportMetrics(ratiosIn.scenario, ratiosIn.currentCash)>>
  /\ UNCHANGED <<ratiosIn, comparisonOut, coreVars, budgetVars, fundingVars,
               sensitivityVars, llmVars, validationVars, analysisVars, appVars>>

CompareToBenchmarks ==
  /\ comparisonOut = <<>>
  /\ comparisonOut' = <<compareToBenchmarks(ratiosIn.scenario)>>
  /\ UNCHANGED <<ratiosIn, ratiosOut, coreVars, budgetVars, fundingVars,
               sensitivityVars, llmVars, validationVars, analysisVars, appVars>>

InitRatios ==
  /\ ratiosIn \in [scenario : {s \in RatioScenarios :
                                 NLe(s.projections[1].cogs, s.projections[1].revenue)},
                   currentCash : {I(Lakh)}]
  /\ ratiosOut = <<>> /\ comparisonOut = <<>>
  /\ CoreIdle /\ BudgetIdle /\ FundingIdle /\ SensitivityIdle /\ LlmIdle /\ ValidationIdle
  /\ AnalysisIdle /\ AppIdle

NextRatios == CalculateReportMetrics \/ CompareToBenchmarks

SpecRatios == InitRatios /\ [][NextRatios]_vars

(***************************************************************************)
(* Properties of the divisions in the calculation components               *)
(***************************************************************************)

\* A figure is the result of guarded divisions only when it is a finite
\* number: in JavaScript x / 0 is Infinity, -Infinity or NaN and never throws.
finiteFigure(x) == IF x.k = "cagrPercent" THEN IsFin(x.of) ELSE IsFin(x)

ratiosFinite(r) ==
  /\ \A f \in {"grossMargin", "ebitdaMargin", "netMargin", "roa"} :
        finiteFigure(r.profitabilityRatios[f])
  /\ \A f \in {"revenueGrowth", "ebitdaGrowth", "netIncomeGrowth"} :
        finiteFigure(r.growthRatios[f])
  /\ \A f \in {"assetTurnover", "cogsRatio", "opexRatio"} :
        finiteFigure(r.efficiencyRatios[f])

breakEvenFinite(b) ==
  \A f \in {"breakEvenRevenue", "breakEvenUnits", "marginOfSafety", "operatingLeverage",
            "burnRate", "breakEvenMonth", "monthsToBreakEven", "requiredGrowthRate"} :
     finiteFigure(b[f])

valuationFinite(v) ==
  \A f \in {"dcfValuation", "terminalValue", "presentValue", "enterpriseValue",
            "equityValue", "sharePrice"} : finiteFigure(v[f])

budgetFinite(b) ==
  /\ finiteFigure(b.monthlyBurn) /\ finiteFigure(b.runwayMonths)
  /\ finiteFigure(b.adequacy.shortfall) /\ finiteFigure(b.adequacy.recommendedBudget)

comparisonFinite(c) ==
  \A f \in {"companyMargin", "marginPercentile", "companyGrowth", "growthPercentile"} :
     finiteFigure(c[f])

\* C22: for every scenario that satisfies the FinancialYear invariants with
\* revenue > 0 and cashBalance >= 0 (cashBalance == 0 and cogs == revenue
\* included), no figure of calculateFinancialRatios, calculateBreakEven,
\* calculateValuation with the default assumptions, analyzeBudget and
\* compareToBenchmarks is the result of a division by zero.
C22_EveryDivisionGuarded ==
  /\ ratiosOut # <<>> =>
       /\ ratiosFinite(ratiosOut[1].ratios)
       /\ breakEvenFinite(ratiosOut[1].breakEven)
       /\ valuationFinite(ratiosOut[1].valuation)
       /\ budgetFinite(ratiosOut[1].budgetAnalysis)
  /\ comparisonOut # <<>> => comparisonFinite(comparisonOut[1])

(***************************************************************************)
(* Properties of retryWithDelay on errors that are no rate limit           *)
(***************************************************************************)

OtherErrors == {error \in ApiErrors : ~isRateLimit(error)}

\* The invocation that fails with the error ends the call: the error is
\* rethrown, no delay is waited for, and when it was the first invocation
\* the request has been invoked exactly once.
rethrownAtOnce(error) ==
  /\ pc' = "settled"
  /\ llmOut'[1].thrown = error
  /\ waited' = waited /\ invoked' = invoked + 1
  /\ (invoked = 0 => (invoked' = 1 /\ waited' = <<>>))

\* C23: when the request fails with an error whose status is not 429 and
\* whose code is not rate_limit_exceeded, retryWithDelay does not retry: the
\* request is invoked exactly once, no delay is waited, and that error is
\* rethrown to the caller.
C23_OnlyRateLimitRetried ==
  [][\A error \in OtherErrors :
        (ThroughRetry /\ InvokeRequest(error)) => rethrownAtOnce(error)]_vars

\* A network error at the first invocation, rethrown after it.
C23_Witness ==
  /\ ThroughRetry /\ pc = "settled" /\ invoked = 1 /\ waited = <<>>
  /\ llmOut[1].thrown = "network error"

(***************************************************************************)
(* Dashboard: the quick ratio analysis effect                              *)
(***************************************************************************)

MaxAnalysisRequests == 3

\* The Dashboard shows the three generated scenarios, indexed from 0.
ScenarioIndices == 0..2

\* What the analyzeRatios request may come back with.
AnalysisResponses == {"prose", "empty", "network error"}

Placeholder == [kind |-> "placeholder", scenario |-> 0, text |-> "Analyzing scenario metrics..."]

\* The text analyzeRatios resolves with, for the scenario it was asked about.
analysisOf(scenario, response) ==
  LET value == analyzeRatiosOf(response).value
  IN  [kind |-> "result", scenario |-> scenario,
       text |-> IF "text" \in DOMAIN value THEN value.text ELSE value.content]

\* A variant that sets the state whatever the flag says.
keepsAnyResult(isMounted) == TRUE

\* if(isMounted) setAiAnalysis(text)
keepsResult(isMounted) == isMounted

\* return () => { isMounted = false; } of the effect that ran last; the
\* effects before it have been cleaned up already.
cleanedUp(inFlight) ==
  [i \in DOMAIN inFlight |-> [inFlight[i] EXCEPT !.isMounted = FALSE]]

\* The effect body: isMounted = true and fetchAnalysis() up to its await.
fetchAnalysis(inFlight, idx) == Append(inFlight, [scenario |-> idx, isMounted |-> TRUE])

withoutRequest(inFlight, r) ==
  [i \in 1..(Len(inFlight) - 1) |-> IF i < r THEN inFlight[i] ELSE inFlight[i + 1]]

\* A Dashboard is rendered with useState(0) and useState(""), and its effect
\* runs for the first time.
MountDashboard ==
  /\ ~dashboardMounted /\ requested < MaxAnalysisRequests
  /\ dashboardMounted' = TRUE
  /\ activeScenarioIdx' = 0
  /\ aiAnalysis' = Placeholder
  /\ requests' = fetchAnalysis(requests, 0)
  /\ requested' = requested + 1
  /\ UNCHANGED <<coreVars, budgetVars, fundingVars, sensitivityVars, llmVars,
               validationVars, ratiosVars, appVars>>

\* A click on another scenario's button: the state changes, the Dashboard
\* renders again, the previous effect is cleaned up and the effect runs for
\* the new active scenario.  A click on the active scenario's button changes
\* no dependency of the effect.
SetActiveScenarioIdx(idx) ==
  /\ dashboardMounted /\ idx # activeScenarioIdx /\ requested < MaxAnalysisRequests
  /\ activeScenarioIdx' = idx
  /\ aiAnalysis' = Placeholder
  /\ requests' = fetchAnalysis(cleanedUp(requests), idx)
  /\ requested' = requested + 1
  /\ UNCHANGED dashboardMounted
  /\ UNCHANGED <<coreVars, budgetVars, fundingVars, sensitivityVars, llmVars,
               validationVars, ratiosVars, appVars>>

\* The Dashboard is removed (App's "New Model"): the effect is cleaned up.
UnmountDashboard ==
  /\ dashboardMounted
  /\ dashboardMounted' = FALSE
  /\ requests' = cleanedUp(requests)
  /\ UNCHANGED <<activeScenarioIdx, aiAnalysis, requested>>
  /\ UNCHANGED <<coreVars, budgetVars, fundingVars, sensitivityVars, llmVars,
               validationVars, ratiosVars, appVars>>

\* The await of request r resumes with the text analyzeRatios resolved with.
AnalysisArrives(r, response) ==
  /\ r \in DOMAIN requests
  /\ aiAnalysis' = IF keepsResult(requests[r].isMounted)
                   THEN analysisOf(requests[r].scenario, response) ELSE aiAnalysis
  /\ requests' = withoutRequest(requests, r)
  /\ UNCHANGED <<dashboardMounted, activeScenarioIdx, requested>>
  /\ UNCHANGED <<coreVars, budgetVars, fundingVars, sensitivityVars, llmVars,
               validationVars, ratiosVars, appVars>>

InitAnalysis ==
  /\ AnalysisIdle
  /\ CoreIdle /\ BudgetIdle /\ FundingIdle /\ SensitivityIdle /\ LlmIdle /\ ValidationIdle
  /\ RatiosIdle /\ AppIdle

NextAnalysis ==
  \/ MountDashboard
  \/ \E idx \in ScenarioIndices : SetActiveScenarioIdx(idx)
  \/ UnmountDashboard
  \/ \E r \in 1..MaxAnalysisRequests, response \in AnalysisResponses :
       AnalysisArrives(r, response)

SpecAnalysis == InitAnalysis /\ [][NextAnalysis]_vars

(***************************************************************************)
(* Properties of the analysis effect                                       *)
(***************************************************************************)

superseded(r) == r \in DOMAIN requests /\ ~requests[r].isMounted

\* C24: under any interleaving of scenario switches, unmounts and response
\* arrivals the response of a superseded analyzeRatios request is discarded,
\* and the aiAnalysis a mounted Dashboard displays is either the placeholder
\* text or the result requested for the currently active scenario.
C24_NoStaleAnalysis ==
  /\ [](dashboardMounted =>
          \/ aiAnalysis = Placeholder
          \/ aiAnalysis.kind = "result" /\ aiAnalysis.scenario = activeScenarioIdx)
  /\ [][\A r \in 1..MaxAnalysisRequests, response \in AnalysisResponses :
          (superseded(r) /\ AnalysisArrives(r, response)) => aiAnalysis' = aiAnalysis]_vars

\* The result for the active scenario is displayed while the response of a
\* superseded request for another scenario is still to arrive.
C24_Witness ==
  /\ dashboardMounted /\ aiAnalysis.kind = "result"
  /\ \E r \in DOMAIN requests : superseded(r) /\ requests[r].scenario # activeScenarioIdx

(***************************************************************************)
(* App.tsx: handleGenerate and the loading state                           *)
(***************************************************************************)

GeneralKnowledge == "Use general market knowledge."

\* A variant that keeps the initial text whatever the benchmarks are.
keptGeneralKnowledge(benchmarks) == GeneralKnowledge

\* `Revenue Growth Avg: ${avgGrowthRate}, EBITDA Margin Avg: ${avgEbitdaMargin}.`
benchmarksText(benchmarks) ==
  "Revenue Growth Avg: " \o benchmarks.avgGrowthRate \o
  ", EBITDA Margin Avg: " \o benchmarks.avgEbitdaMargin \o "."

\* isLoading, as App hands it to the InputForm, whose submit button it
\* disables; the form is hidden while scenarios is set.
isLoading == loadingState # "IDLE" /\ loadingState # "ERROR"

\* The form is submitted: handleGenerate runs up to its first await.
AppHandleGenerate(input) ==
  /\ ~isLoading /\ appScenarios = <<>>
  /\ loadingState' = "BENCHMARKING"
  /\ errorMsg' = "null"
  /\ appScenarios' = <<>>
  /\ benchmarksStr' = GeneralKnowledge
  /\ run' = [pc |-> "fetchIndustryBenchmarks", input |-> input]
  /\ UNCHANGED benchmarkData
  /\ UNCHANGED <<coreVars, budgetVars, fundingVars, sensitivityVars, llmVars,
               validationVars, ratiosVars, analysisVars>>

\* await fetchIndustryBenchmarks(...) resumes; response is what the request
\* behind it came back with after retryWithDelay.  The inner try / catch,
\* then setLoadingState(MODELING) and the call of generateFinancialModel.
BenchmarksSettle(response) ==
  /\ run.pc = "fetchIndustryBenchmarks"
  /\ LET outcome == fetchIndustryBenchmarksOf(run.input.industry, response)
     IN  IF outcome.settled = "resolved"
         THEN /\ benchmarkData' = <<outcome.value>>
              /\ benchmarksStr' = benchmarksText(outcome.value)
         ELSE UNCHANGED <<benchmarkData, benchmarksStr>>
  /\ loadingState' = "MODELING"
  /\ run' = [run EXCEPT !.pc = "generateFinancialModel"]
  /\ UNCHANGED <<appScenarios, errorMsg>>
  /\ UNCHANGED <<coreVars, budgetVars, fundingVars, sensitivityVars, llmVars,
               validationVars, ratiosVars, analysisVars>>

\* await generateFinancialModel(...) resumes: the scenarios are set and the
\* run is COMPLETE, or the outer catch reports the error.
ModelSettles(response) ==
  /\ run.pc = "generateFinancialModel"
  /\ LET outcome == generateFinancialModelOf(run.input, response)
     IN  IF outcome.settled = "resolved"
         THEN /\ appScenarios' = <<outcome.value>>
              /\ loadingState' = "COMPLETE"
              /\ UNCHANGED errorMsg
         ELSE /\ loadingState' = "ERROR"
              /\ errorMsg' = "Failed to generate model. Please check your API Key and try again."
              /\ UNCHANGED appScenarios
  /\ run' = NoRun
  /\ UNCHANGED <<benchmarkData, benchmarksStr>>
  /\ UNCHANGED <<coreVars, budgetVars, fundingVars, sensitivityVars, llmVars,
               validationVars, ratiosVars, analysisVars>>

\* The "Try Again" button of the error box.
TryAgain ==
  /\ loadingState = "ERROR"
  /\ loadingState' = "IDLE"
  /\ UNCHANGED <<appScenarios, errorMsg, benchmarkData, benchmarksStr, run>>
  /\ UNCHANGED <<coreVars, budgetVars, fundingVars, sensitivityVars, llmVars,
               validationVars, ratiosVars, analysisVars>>

\* The "New Model" button above the results.
NewModel ==
  /\ appScenarios # <<>>
  /\ appScenarios' = <<>>
  /\ loadingState' = "IDLE"
  /\ UNCHANGED <<errorMsg, benchmarkData, benchmarksStr, run>>
  /\ UNCHANGED <<coreVars, budgetVars, fundingVars, sensitivityVars, llmVars,
               validationVars, ratiosVars, analysisVars>>

\* What the form submits: the figures of LlmInputs for some industries.
AppIndustries == {"SaaS", "E-commerce", "Fintech", "Other"}

AppInputs == {[in EXCEPT !.industry = ind] : in \in LlmInputs, ind \in AppIndustries}

InitApp ==
  /\ AppIdle
  /\ CoreIdle /\ BudgetIdle /\ FundingIdle /\ SensitivityIdle /\ LlmIdle /\ ValidationIdle
  /\ RatiosIdle /\ AnalysisIdle

NextApp ==
  \/ \E input \in AppInputs : AppHandleGenerate(input)
  \/ \E response \in ApiResponses : BenchmarksSettle(response)
  \/ \E response \in ApiResponses : ModelSettles(response)
  \/ TryAgain
  \/ NewModel

SpecApp == InitApp /\ [][NextApp]_vars

\* Both API calls settle: a pending await is resumed once its promise has
\* settled.
SpecAppFair ==
  /\ SpecApp
  /\ WF_vars(\E response \in ApiResponses : BenchmarksSettle(response))
  /\ WF_vars(\E response \in ApiResponses : ModelSettles(response))

(***************************************************************************)
(* Properties of App.handleGenerate                                        *)
(***************************************************************************)

\* The loading state moves IDLE -> BENCHMARKING -> MODELING -> COMPLETE or
\* ERROR; a run may also start from ERROR, and the two buttons lead back to
\* IDLE.
LoadingSteps ==
  {<<"IDLE", "BENCHMARKING">>, <<"ERROR", "BENCHMARKING">>,
   <<"BENCHMARKING", "MODELING">>, <<"MODELING", "COMPLETE">>,
   <<"MODELING", "ERROR">>, <<"ERROR", "IDLE">>, <<"COMPLETE", "IDLE">>}

loadingStateMovesInOrder ==
  loadingState' # loadingState => <<loadingState, loadingState'>> \in LoadingSteps

\* The run ends in COMPLETE with scenarios set when generateFinancialModel
\* resolves, in ERROR with scenarios == null and an error message when it
\* rejects.
runEndsAsGenerationSettles ==
  \A response \in ApiResponses :
    ModelSettles(response) =>
      IF generateFinancialModelOf(run.input, response).settled = "resolved"
      THEN loadingState' = "COMPLETE" /\ appScenarios' # <<>>
      ELSE loadingState' = "ERROR" /\ appScenarios' = <<>> /\ errorMsg' # "null"

scenariosOnlyWhenDone ==
  loadingState \in {"BENCHMARKING", "MODELING", "ERROR"} => appScenarios = <<>>

runTerminates ==
  (loadingState = "BENCHMARKING") ~> (loadingState \in {"COMPLETE", "ERROR"})

\* After a failed benchmark request generation starts with text.
generationStartsWith(text) ==
  \A error \in ApiErrors :
    BenchmarksSettle(error) =>
      /\ loadingState' = "MODELING" /\ run'.pc = "generateFinancialModel"
      /\ benchmarksStr' = text

RECURSIVE sumOfRoundAmounts(_)
sumOfRoundAmounts(rounds) ==
  IF rounds = <<>> THEN I(0)
  ELSE NAdd(rounds[1].amount, sumOfRoundAmounts(Tail(rounds)))

roundsCoverTotal(result) ==
  /\ result.recommendedFundingRounds # <<>>
  /\ NEq(sumOfRoundAmounts(result.recommendedFundingRounds), result.totalFundingNeeded)
  /\ NGt(result.dilution, I(0))

\* C26: whenever calculateFundingRequirements reports totalFundingNeeded > 0,
\* recommendedFundingRounds is non-empty, the amounts of the recommended
\* rounds sum to totalFundingNeeded, and the reported dilution is > 0.
C26_RoundsCoverTotal ==
  (FundingDone /\ NGt(fundingOut[1].result.totalFundingNeeded, I(0))) =>
    roundsCoverTotal(fundingOut[1].result)

(***************************************************************************)
(* Properties of the fallback scenarios of generateFinancialModel          *)
(***************************************************************************)

FellBack ==
  /\ Settled /\ llmOp.name = "generateFinancialModel"
  /\ llmOut[1].response = "prose" /\ llmOut[1].outcome.settled = "resolved"

\* C27: in each of the 9 years of the three fallback scenarios that
\* generateFinancialModel returns when the response cannot be parsed,
\* |grossProfit - (revenue - cogs)| <= 1 and |ebitda - (grossProfit - opex)| <= 1.
C27_FallbackYearsCoherent ==
  FellBack =>
    \A i \in 1..3, y \in 1..3 :
      LET p == llmOut[1].outcome.value.scenarios[i].projections[y]
      IN  NLe(grossProfitGap(p), I(1)) /\ NLe(ebitdaGap(p), I(1))

(***************************************************************************)
(* Properties of the signs of the projected costs                          *)
(***************************************************************************)

validInput ==
  /\ NGt(inputs.annualRevenue, I(0)) /\ NGt(inputs.monthlyExpenses, I(0))
  /\ NGe(inputs.availableCash, I(0))

\* C28: for every valid input (revenue > 0, monthly expenses > 0, cash >= 0)
\* and every industry and country, every year of every scenario returned by
\* generateScenariosFromInputs has cogs >= 0 and opex >= 0.
C28_CostsNotNegative ==
  (Generated /\ validInput) =>
    \A p \in GeneratedYears : NGe(p.cogs, I(0)) /\ NGe(p.opex, I(0))

(***************************************************************************)
(* Properties of a break-even probability of 100                           *)
(***************************************************************************)

breakEvenYearOne == breakEvenIn.scenario.projections[1]

reachedBreakEven(firstYear) ==
  /\ NGt(NSub(firstYear.revenue, firstYear.cogs), I(0))
  /\ atBreakEven(firstYear)

\* C29: calculateBreakEven returns probability == 100 only for scenarios that
\* have reached break-even, that is, whose contribution margin is positive
\* and whose year-1 revenue is at least opex1 / (1 - cogs1/revenue1).
C29_CertainOnlyAtBreakEven ==
  (breakEvenOut # <<>> /\ breakEvenOut[1].probability = 100) =>
    reachedBreakEven(breakEvenYearOne)

(***************************************************************************)
(* Properties of the signs of the valuation figures                        *)
(***************************************************************************)

defaultAssumptions ==
  /\ valuationIn.assumptions.wacc = Undefined
  /\ valuationIn.assumptions.terminalGrowthRate = Undefined

positiveRevenue ==
  \A y \in 1..Len(valuationIn.scenario.projections) :
    NGt(valuationIn.scenario.projections[y].revenue, I(0))

\* C30: with the default assumptions (wacc 0.15, terminal growth 0.025), for
\* every scenario with positive revenue in all years, the dcfValuation,
\* presentValue, terminalValue, enterpriseValue and sharePrice that
\* calculateValuation returns are all >= 0.
C30_NoNegativeValuation ==
  (valuationOut # <<>> /\ defaultAssumptions /\ positiveRevenue) =>
    \A f \in {"dcfValuation", "presentValue", "terminalValue", "enterpriseValue",
              "sharePrice"} : NGe(valuationOut[1][f], I(0))

=============================================================================
